---------------------------- MODULE Spec2Model ----------------------------
(***************************************************************************)
(* Model of the request-admission layer of the voice assistant:            *)
(*   src/utils/rate_limiter.py  ModelLimiter (one tier) and RateLimiter    *)
(*   (two tiers behind one admission API).                                 *)
(*                                                                         *)
(* Time is counted in ticks of 0.1 s, the poll interval of                 *)
(* RateLimiter.wait_for_token, so that every duration of the code is an    *)
(* integer.  The clock moves over a finite grid of instants chosen around  *)
(* the boundaries of the two sliding windows.                              *)
(*                                                                         *)
(* The specifications share the state:                                     *)
(*   Spec      every public operation is one atomic step (one caller)      *)
(*   SpecWait  wait_for_token as a polling process, other callers between  *)
(*   SpecConc  several threads in one tier's ModelLimiter, the calls split *)
(*             where the interpreter may switch threads, locks explicit    *)
(*   SpecSel   several threads in RateLimiter.try_acquire, split likewise  *)
(*   SpecWaitLive   SpecWait within a time horizon, with fair scheduling   *)
(*   SpecCache      CacheManager, each operation one atomic step           *)
(*   SpecCacheConc  two threads in CacheManager.get and set, split at the  *)
(*                  statements, no lock as in the source                   *)
(*   SpecQuery      GeminiClient.send_query over limiter, cache and log    *)
(*   SpecQueryFiles SpecQuery with the screenshot missing or unreadable    *)
(*   SpecQueryAnyCache  SpecQuery with the cache enabled or disabled       *)
(*   SpecKey        _generate_cache_key over files that change             *)
(*   SpecQueries    the retry loop of send_query in several threads        *)
(*   SpecDispatch   the same loop, one query at a time, with images or not *)
(***************************************************************************)
EXTENDS Integers, Sequences, FiniteSets, TLC

VARIABLES
    now,              \* time.time(), in ticks
    minute_requests,  \* ModelLimiter.minute_requests, per tier
    day_requests,     \* ModelLimiter.day_requests, per tier
    current_model,    \* RateLimiter._current_model
    grants,           \* history: timestamps of the granted calls, per tier
    log,              \* history: results of the calls of the first second
    last,             \* history: the last operation and what it returned
    wft,              \* the caller inside RateLimiter.wait_for_token
    lock,             \* ModelLimiter._lock, per tier: the holder, 0 when free
    th,               \* the threads: the call each is in, and its locals
    cache,            \* CacheManager._cache, least recently used first
    enabled,          \* CacheManager.enabled
    clast,            \* history: the last cache operation and its result
    recency,          \* history: the cached keys, least recently used first
    born,             \* history: per key, the last set() and whether it lives
    cth,              \* the threads inside CacheManager.get and set
    sq,               \* the call of GeminiClient.send_query, and its history
    history,          \* ConversationHistory: the records, oldest first
    files,            \* per image path, its modification time and size
    keyed,            \* history: the last two calls of _generate_cache_key
    qth,              \* the threads inside the retry loop of send_query
    dispatched        \* history: the instants of the dispatches, per model

cachevars == <<cache, enabled, clast, recency, born, cth>>

limitervars == <<minute_requests, day_requests, current_model, grants, log,
                 last, wft, lock, th>>

queryvars == <<sq, history, files, keyed, qth, dispatched>>

vars == <<now, limitervars, cachevars, queryvars>>

(* What the operations of the limiter leave alone. *)
othervars == <<cachevars, queryvars>>

concvars == <<lock, th, othervars>>

-----------------------------------------------------------------------------
(* Constants of the program *)

PRO == "pro"
FLASH == "flash"
ModelType == {PRO, FLASH}

TicksPerSecond == 10
minute_window == 60 * TicksPerSecond
day_window == 86400 * TicksPerSecond

(* Quotas: config.py reads them from the environment; the model runs with  *)
(* small ones.                                                             *)
GEMINI_PRO_RPM == 2
GEMINI_PRO_RPD == 3
GEMINI_FLASH_RPM == 3
GEMINI_FLASH_RPD == 4

rpm(m) == IF m = PRO THEN GEMINI_PRO_RPM ELSE GEMINI_FLASH_RPM
rpd(m) == IF m = PRO THEN GEMINI_PRO_RPD ELSE GEMINI_FLASH_RPD

(* The instants the clock visits. *)
Times == {0, 1, minute_window, day_window, day_window + minute_window}

(* The instants the clock visits while several threads run. *)
TimesConc == {0, minute_window}

Max(a, b) == IF a >= b THEN a ELSE b

-----------------------------------------------------------------------------
(* ModelLimiter *)

(* The two loops of _clean_old_requests: popleft while the head is old. *)
RECURSIVE PopOldLate(_, _, _)
PopOldLate(q, t, window) ==
    IF q # <<>> /\ t - Head(q) > window
    THEN PopOldLate(Tail(q), t, window)
    ELSE q

RECURSIVE PopOld(_, _, _)
PopOld(q, t, window) ==
    IF q # <<>> /\ t - Head(q) >= window
    THEN PopOld(Tail(q), t, window)
    ELSE q

CleanMinute(m, t) == PopOld(minute_requests[m], t, minute_window)
CleanDay(m, t) == PopOld(day_requests[m], t, day_window)

BelowLimitsOffByOne(mq, dq, m) == Len(mq) <= rpm(m) /\ Len(dq) < rpd(m)

(* The test of try_acquire, on the cleaned windows. *)
BelowLimits(mq, dq, m) == Len(mq) < rpm(m) /\ Len(dq) < rpd(m)

AcquireMinuteUnrecorded(m, t) ==
    LET mq == CleanMinute(m, t)
        dq == CleanDay(m, t)
    IN  IF BelowLimits(mq, dq, m)
        THEN [granted |-> TRUE, minute |-> mq, day |-> Append(dq, t)]
        ELSE [granted |-> FALSE, minute |-> mq, day |-> dq]

AcquireDayUnrecorded(m, t) ==
    LET mq == CleanMinute(m, t)
        dq == CleanDay(m, t)
    IN  IF BelowLimits(mq, dq, m)
        THEN [granted |-> TRUE, minute |-> Append(mq, t), day |-> dq]
        ELSE [granted |-> FALSE, minute |-> mq, day |-> dq]

(* ModelLimiter.try_acquire at instant t: what it returns and leaves. *)
Acquire(m, t) ==
    LET mq == CleanMinute(m, t)
        dq == CleanDay(m, t)
    IN  IF BelowLimits(mq, dq, m)
        THEN [granted |-> TRUE, minute |-> Append(mq, t), day |-> Append(dq, t)]
        ELSE [granted |-> FALSE, minute |-> mq, day |-> dq]

WaitTimeUnclamped(m, t) ==
    LET minute_wait == IF Len(minute_requests[m]) >= rpm(m)
                       THEN minute_window - (t - minute_requests[m][1])
                       ELSE 0
        day_wait == IF Len(day_requests[m]) >= rpd(m)
                    THEN day_window - (t - day_requests[m][1])
                    ELSE 0
    IN  Max(minute_wait, day_wait)

WaitTimeOfMinute(m, t) ==
    IF Len(minute_requests[m]) >= rpm(m)
    THEN Max(0, minute_window - (t - minute_requests[m][1]))
    ELSE 0

(* ModelLimiter.get_wait_time at instant t (it does not clean). *)
WaitTime(m, t) ==
    LET minute_wait == IF Len(minute_requests[m]) >= rpm(m)
                       THEN Max(0, minute_window - (t - minute_requests[m][1]))
                       ELSE 0
        day_wait == IF Len(day_requests[m]) >= rpd(m)
                    THEN Max(0, day_window - (t - day_requests[m][1]))
                    ELSE 0
    IN  Max(minute_wait, day_wait)

-----------------------------------------------------------------------------
(* RateLimiter *)

OtherModelSame(cur) == cur

(* The tier try_acquire falls back to: the one that is not current. *)
OtherModel(cur) == IF cur = PRO THEN FLASH ELSE PRO

SwitchedToNothing(cur, other) == cur

(* The tier switch_model selects. *)
Toggled(cur) == IF cur = PRO THEN FLASH ELSE PRO

(* self._current_model = other_model, after the other tier granted. *)
SwitchedTo(cur, other) == other

StayedOnPrimary(cur) == PRO

(* The selector after the current tier granted: not assigned. *)
StayedOn(cur) == cur

(* RateLimiter.try_acquire with the selector at cur, at instant t: the      *)
(* current tier first, the other tier only when the current one denies.    *)
(* model is the tier that granted, "none" when both denied.                *)
RAcquire(cur, t) ==
    LET r1 == Acquire(cur, t)
        other == OtherModel(cur)
        r2 == Acquire(other, t)
    IN  IF r1.granted
        THEN [granted |-> TRUE, model |-> cur, current |-> StayedOn(cur),
              calls |-> <<[model |-> cur, granted |-> TRUE]>>,
              minute |-> [minute_requests EXCEPT ![cur] = r1.minute],
              day |-> [day_requests EXCEPT ![cur] = r1.day]]
        ELSE LET mq == [minute_requests EXCEPT ![cur] = r1.minute]
                 dq == [day_requests EXCEPT ![cur] = r1.day]
             IN  IF r2.granted
                 THEN [granted |-> TRUE, model |-> other,
                       current |-> SwitchedTo(cur, other),
                       calls |-> <<[model |-> cur, granted |-> FALSE],
                                   [model |-> other, granted |-> TRUE]>>,
                       minute |-> [mq EXCEPT ![other] = r2.minute],
                       day |-> [dq EXCEPT ![other] = r2.day]]
                 ELSE [granted |-> FALSE, model |-> "none", current |-> cur,
                       calls |-> <<[model |-> cur, granted |-> FALSE],
                                   [model |-> other, granted |-> FALSE]>>,
                       minute |-> [mq EXCEPT ![other] = r2.minute],
                       day |-> [dq EXCEPT ![other] = r2.day]]

(* wait_for_token *)

(* timeout = None *)
NoTimeout == -1

(* time.sleep(0.1), in ticks *)
PollInterval == 1

(* The timeouts callers pass: None, 0, the 10 s of send_query, one minute. *)
Timeouts == {NoTimeout, 0, 10 * TicksPerSecond, minute_window}

(* The loop is entered at the poll: while True: if self.try_acquire(). *)
Entry == "poll"

(* if self.try_acquire(): return True *)
AfterPoll(granted) == IF granted THEN "returned" ELSE "check"

TimedOutWhenBounded(timeout, start_time, t) == timeout # NoTimeout

TimedOutNever(timeout, start_time, t) == FALSE

(* timeout is not None and time.time() - start_time >= timeout *)
TimedOut(timeout, start_time, t) ==
    timeout # NoTimeout /\ t - start_time >= timeout

Idle == [pc |-> "idle", timeout |-> NoTimeout, start_time |-> 0, wake |-> 0,
         result |-> FALSE, polls |-> 0, admitted |-> 0]

(* Threads *)

MaxThreads == 2
Threads == 1..MaxThreads

IdleThread ==
    [op |-> "none", pc |-> "idle", m |-> "none", tnow |-> 0, granted |-> FALSE,
     first |-> "none", second |-> "none", ret |-> FALSE, model |-> "none",
     wait |-> 0, spare |-> {}]

IdleCacheThread ==
    [op |-> "none", pc |-> "idle", key |-> <<>>, value |-> <<>>,
     entry |-> <<>>, ret |-> <<>>]

CanLockAlways(holder) == TRUE

(* with self._lock: entered only when no thread holds the lock. *)
CanLock(holder) == holder = 0

-----------------------------------------------------------------------------
(* CacheManager *)

CACHE_ENABLED == TRUE
CACHE_TIMEOUT == 3600 * TicksPerSecond
MAX_CACHE_ITEMS == 2

(* Texts are sequences of characters; the empty text is <<>>.  A cache key *)
(* is the text that was hashed.                                            *)
Keys == {<<"q1">>, <<"q2">>, <<"q3">>}
Values == {<<"a">>, <<"b">>}

(* The instants the clock visits around the expiry of an entry. *)
TimesCache == {0, 1, CACHE_TIMEOUT, CACHE_TIMEOUT + 1, 2 * CACHE_TIMEOUT + 2}

(* The keys of an OrderedDict, in its order. *)
KeysOf(c) == [i \in 1..Len(c) |-> c[i].key]

(* key in self._cache *)
Has(c, key) == \E i \in 1..Len(c) : c[i].key = key

(* self._cache[key] *)
EntryOf(c, key) == c[CHOOSE i \in 1..Len(c) : c[i].key = key]

(* del self._cache[key] *)
RECURSIVE Without(_, _)
Without(c, key) ==
    IF c = <<>> THEN <<>>
    ELSE IF Head(c).key = key THEN Tail(c)
         ELSE <<Head(c)>> \o Without(Tail(c), key)

(* self._cache.move_to_end(key) *)
MoveToEnd(c, key) == Append(Without(c, key), EntryOf(c, key))

NotExpiredAlways(t, timestamp) == TRUE

(* time.time() - timestamp <= self.timeout *)
NotExpired(t, timestamp) == t - timestamp <= CACHE_TIMEOUT

HitRefreshed(e, t) == [e EXCEPT !.timestamp = t]

(* The entry after a hit: move_to_end re-orders it and writes nothing. *)
Hit(e, t) == e

(* CacheManager.get(key) at instant t: what it returns and leaves.  None   *)
(* is hit = FALSE.                                                         *)
CacheGet(c, en, key, t) ==
    IF ~en THEN [hit |-> FALSE, value |-> <<>>, cache |-> c]
    ELSE IF Has(c, key)
         THEN LET e == EntryOf(c, key)
              IN  IF NotExpired(t, e.timestamp)
                  THEN [hit |-> TRUE, value |-> e.value,
                        cache |-> Append(Without(c, key), Hit(e, t))]
                  ELSE [hit |-> FALSE, value |-> <<>>,
                        cache |-> Without(c, key)]
         ELSE [hit |-> FALSE, value |-> <<>>, cache |-> c]

FullOver(c) == Len(c) > MAX_CACHE_ITEMS

(* len(self._cache) >= self.max_items *)
Full(c) == Len(c) >= MAX_CACHE_ITEMS

(* while len(self._cache) >= self.max_items: self._cache.popitem(last=False) *)
RECURSIVE PopWhileFull(_)
PopWhileFull(c) ==
    IF Full(c) THEN PopWhileFull(Tail(c)) ELSE c

(* self._cache[key] = (value, time.time()): an existing key keeps its place *)
Assign(c, key, value, t) ==
    LET e == [key |-> key, value |-> value, timestamp |-> t]
    IN  IF Has(c, key)
        THEN [i \in 1..Len(c) |-> IF c[i].key = key THEN e ELSE c[i]]
        ELSE Append(c, e)

CacheSetUnguarded(c, en, key, value, t) ==
    LET kept == PopWhileFull(c)
    IN  [cache |-> MoveToEnd(Assign(kept, key, value, t), key),
         evicted |-> SubSeq(KeysOf(c), 1, Len(c) - Len(kept))]

(* CacheManager.set(key, value) at instant t: the cache it leaves and the  *)
(* keys it popped.                                                         *)
CacheSet(c, en, key, value, t) ==
    IF ~en THEN [cache |-> c, evicted |-> <<>>]
    ELSE LET kept == PopWhileFull(c)
         IN  [cache |-> MoveToEnd(Assign(kept, key, value, t), key),
              evicted |-> SubSeq(KeysOf(c), 1, Len(c) - Len(kept))]

CacheRemoveOldest(c, key) == IF Has(c, key) THEN Tail(c) ELSE c

(* CacheManager.remove(key) *)
CacheRemove(c, key) == IF Has(c, key) THEN Without(c, key) ELSE c

(* CacheManager.clear() *)
CacheClear(c) == <<>>

-----------------------------------------------------------------------------
(* GeminiClient *)

(* send_query(question, image_paths, max_retries=3) *)
max_retries == 3

(* self.rate_limiter.wait_for_token(timeout=10) *)
AdmissionTimeout == 10 * TicksPerSecond

(* The questions asked: a plain one and one that asks for a web search. *)
Questions == {<<"q1">>, <<"pesquise na internet", "q1">>}

(* The image lists attached: none, or the one screenshot. *)
ImageLists == {<<>>, <<"p1">>}
Paths == {"p1", "p2"}

(* A file: what os.path.getmtime and getsize give for it, as the digits    *)
(* they are formatted to, and whether Image.open can read it.  Missing is  *)
(* the file for which they raise OSError.                                  *)
File(mtime, size, image) == [mtime |-> mtime, size |-> size, image |-> image]
Missing == File(<<>>, <<>>, FALSE)
Good == File(<<"1">>, <<"1">>, TRUE)
Metas == {Good, File(<<"1", "1">>, <<"1">>, TRUE), File(<<"1">>, <<"1", "1">>, TRUE),
          File(<<"1">>, <<"1">>, FALSE)}

(* The texts the backend answers with. *)
Responses == {<<"*", "a", "quote">>, <<"acute", "backtick", "dquote">>}

(* The instants the clock visits while a query runs. *)
TimesQuery == {0, AdmissionTimeout, CACHE_TIMEOUT + 1}

(* The conversation log takes at most this many records. *)
MaxHistory == 2

(* "pesquise na internet" in question.lower() or "pesquisa na internet" ... *)
IsWebSearch(question) ==
    \E i \in 1..Len(question) :
        question[i] \in {"pesquise na internet", "pesquisa na internet"}

(* f"{path}:{mtime}:{size}", or the path alone after OSError *)
KeyPartGlued(path, f) ==
    IF f[path] = Missing THEN <<path>>
    ELSE <<path>> \o f[path].mtime \o f[path].size

KeyPart(path, f) ==
    IF f[path] = Missing THEN <<path>>
    ELSE <<path, ":">> \o f[path].mtime \o <<":">> \o f[path].size

(* "||".join(key_parts), key_parts[1..] being the parts of the images *)
RECURSIVE JoinParts(_, _)
JoinParts(paths, f) ==
    IF paths = <<>> THEN <<>>
    ELSE <<"||">> \o KeyPart(Head(paths), f) \o JoinParts(Tail(paths), f)

(* _generate_cache_key: the hash is taken as injective, so the key is the  *)
(* text that is hashed.                                                    *)
GenerateCacheKey(question, image_paths, f) == question \o JoinParts(image_paths, f)

(* The keys the queries of the model can produce. *)
QueryKeys ==
    {GenerateCacheKey(q, i, f) :
        q \in Questions, i \in ImageLists, f \in [Paths -> Metas \cup {Missing}]}

AllKeys == Keys \cup QueryKeys

ProcessImagesAll(image_paths, f) == image_paths

(* _process_images: the images Image.open could read, in order *)
ProcessImages(image_paths, f) ==
    SelectSeq(image_paths, LAMBDA path : f[path].image)

(* The five characters send_query removes: asterisk, acute accent,         *)
(* backtick, double quote and quote, the last four written by name.        *)
Stripped == {"*", "acute", "backtick", "dquote", "quote"}

SanitizeButQuotes(text) ==
    SelectSeq(text, LAMBDA ch : ch \notin {"*", "acute", "backtick"})

Sanitize(text) == SelectSeq(text, LAMBDA ch : ch \notin Stripped)

TruthyAlways(r) == r.hit

(* if cached_response: None and the empty text are both false *)
Truthy(r) == r.hit /\ r.value # <<>>

HasTextEvenEmpty(kind) == kind \in {"text", "empty"}

(* if hasattr(response, "text") and response.text *)
HasText(kind) == kind = "text"

(* self.model_pro and self.model_vision *)
Variants == {"pro", "vision"}

(* _save_temp_response: 'model': self.rate_limiter.get_current_model().value *)
SavedModel(cur) == cur

(* model_vision when image_paths is non-empty, model_pro otherwise *)
Variant(image_paths) == IF image_paths # <<>> THEN "vision" ELSE "pro"

InLoopOneMore(retries) == retries <= max_retries

(* while retries < max_retries *)
InLoop(retries) == retries < max_retries

BackoffConstant(retries) == 2

(* backoff_time = 2 ** retries, in seconds *)
Backoff(retries) == 2 ^ retries

AfterAdmissionAlways(granted) == "context"

(* if not self.rate_limiter.wait_for_token(timeout=10): return ... *)
AfterAdmission(granted) == IF granted THEN "context" ELSE "returned"

RGetWaitTimeZero(t) == [m \in ModelType |-> 0]

RGetWaitTimeOfCurrent(t) == [m \in ModelType |-> WaitTime(current_model, t)]

(* RateLimiter.get_wait_time(): one estimate per tier *)
RGetWaitTime(t) == [m \in ModelType |-> WaitTime(m, t)]

(* What send_query gives back: the kind of answer, its text, and the wait  *)
(* estimates of the 'temporarily unavailable' text.                        *)
NoWaits == [m \in ModelType |-> 0]
Answer(kind, text, waits) == [kind |-> kind, text |-> text, waits |-> waits]
NoAnswer == Answer("none", <<>>, NoWaits)

(* The locals of the call of send_query, and what it has done so far: the  *)
(* outcome of each attempt, the admissions it took, the dispatches, the    *)
(* backoff sleeps in seconds, the cache sets and the log appends, the      *)
(* backend's text, and the model and the images of the last dispatch.      *)
IdleQuery ==
    [pc |-> "idle", question |-> <<>>, images |-> <<>>, key |-> <<>>,
     retries |-> 0, wake |-> 0, ret |-> NoAnswer, trace |-> <<>>,
     waits |-> 0, admissions |-> 0, dispatches |-> 0, sleeps |-> <<>>,
     sets |-> 0, appends |-> 0, response |-> <<>>,
     variant |-> "none", sent |-> <<>>]

NeedsAdmissionOnce(retries) == retries = 0

(* wait_for_token is called inside the loop, by every attempt *)
NeedsAdmission(retries) == TRUE

(* A thread in the retry loop of send_query: where it is, its images, its  *)
(* retries, the start of its wait_for_token and the end of its sleep, and  *)
(* what the call has done so far: admissions, dispatches, whether an       *)
(* attempt failed, whether an admission was denied, the tier that granted  *)
(* the attempt under way, the kind of answer returned and the 'model'      *)
(* saved with it.                                                          *)
IdleQueryThread ==
    [pc |-> "idle", images |-> <<>>, retries |-> 0, start_time |-> 0,
     wake |-> 0, admissions |-> 0, dispatches |-> 0, failed |-> FALSE,
     denied |-> FALSE, tier |-> "none", ret |-> "none", saved |-> "none"]

-----------------------------------------------------------------------------
(* History kept for the properties *)

NoOp ==
    [op |-> "init", model |-> "none", granted |-> FALSE, wait |-> 0,
     waits |-> NoWaits]

Record(op, m, g, w) ==
    [op |-> op, model |-> m, granted |-> g, wait |-> w, waits |-> NoWaits]

(* Granted timestamps still younger than a day at instant t. *)
RECURSIVE Younger(_, _, _)
Younger(s, t, window) ==
    IF s = <<>> THEN <<>>
    ELSE IF t - Head(s) < window
         THEN <<Head(s)>> \o Younger(Tail(s), t, window)
         ELSE Younger(Tail(s), t, window)

Count(s, t, window) == Len(Younger(s, t, window))

(* Calls on tier m are logged while the first second after construction    *)
(* lasts, up to one call past the minute quota.                            *)
LogOne(lg, c) ==
    IF now < TicksPerSecond /\ Len(lg[c.model]) <= rpm(c.model)
    THEN [lg EXCEPT ![c.model] = Append(@, c.granted)]
    ELSE lg

RECURSIVE LogAll(_, _)
LogAll(lg, calls) ==
    IF calls = <<>> THEN lg ELSE LogAll(LogOne(lg, Head(calls)), Tail(calls))

(* The last cache operation: the key, what get returned, what set popped,  *)
(* whether the key was stored when the call began, whether the entry had   *)
(* been hit since its set, and a bit that changes with every operation.    *)
NoCacheOp ==
    [op |-> "init", key |-> <<>>, hit |-> FALSE, value |-> <<>>,
     evicted |-> <<>>, found |-> FALSE, after_hit |-> FALSE, at |-> 0,
     flip |-> 0]

CacheRecord(op, key, hit, value, evicted) ==
    [op |-> op, key |-> key, hit |-> hit, value |-> value,
     evicted |-> evicted, found |-> Has(cache, key),
     after_hit |-> IF key \in DOMAIN born THEN born[key].hit ELSE FALSE,
     at |-> now, flip |-> 1 - clast.flip]

(* Per key: the instant and the value of its last set(), whether a get()   *)
(* has hit it since, and whether it has been evicted, removed or expired.  *)
NoBirth == [at |-> 0, value |-> <<>>, hit |-> FALSE, live |-> FALSE]

(* s without key k. *)
Drop(s, k) == SelectSeq(s, LAMBDA x : x # k)

(* A use of key k makes it the most recently used. *)
Used(s, k) == Append(Drop(s, k), k)

(* The keys of s that cache c holds. *)
Present(s, c) == SelectSeq(s, LAMBDA x : Has(c, x))

(* The keys of sequence s, as a set. *)
Range(s) == {s[i] : i \in 1..Len(s)}

(* The last call of _generate_cache_key and the one before: the question,  *)
(* the paths, the file each path named when the key was computed, the key. *)
NoKeyCall == [question |-> <<>>, images |-> <<>>, seen |-> <<>>, key |-> <<>>]
NoKeyed == [n |-> 0, last |-> NoKeyCall, prev |-> NoKeyCall]

-----------------------------------------------------------------------------
(* What the properties speak of, stated without the code's own operators *)

(* The entries of window q whose age at the current instant is below w. *)
Fresh(q, w) == Younger(q, now, w)

(* Tier m has spare capacity in both windows at the current instant. *)
Spare(m) ==
    /\ Len(Fresh(minute_requests[m], minute_window)) < rpm(m)
    /\ Len(Fresh(day_requests[m], day_window)) < rpd(m)

(* In this step tier m purged both windows and recorded the instant. *)
RecordedNow(m) ==
    /\ minute_requests'[m] = Append(Fresh(minute_requests[m], minute_window), now)
    /\ day_requests'[m] = Append(Fresh(day_requests[m], day_window), now)

(* In this step tier m purged both windows and recorded nothing. *)
PurgedOnly(m) ==
    /\ minute_requests'[m] = Fresh(minute_requests[m], minute_window)
    /\ day_requests'[m] = Fresh(day_requests[m], day_window)

(* In this step tier m recorded nothing (purged or left alone). *)
NothingRecorded(m) ==
    \/ PurgedOnly(m)
    \/ /\ minute_requests'[m] = minute_requests[m]
       /\ day_requests'[m] = day_requests[m]

IsLimiterAcquire(m) == last'.op = "try_acquire" /\ last'.model = m
IsRAcquire == last'.op = "r_try_acquire"

-----------------------------------------------------------------------------
(* RateLimiter.__init__, CacheManager.__init__ but for the enabled flag. *)
InitState ==
    /\ now = 0
    /\ minute_requests = [m \in ModelType |-> <<>>]
    /\ day_requests = [m \in ModelType |-> <<>>]
    /\ current_model = PRO
    /\ grants = [m \in ModelType |-> <<>>]
    /\ log = [m \in ModelType |-> <<>>]
    /\ last = NoOp
    /\ wft = Idle
    /\ lock = [m \in ModelType |-> 0]
    /\ th = [t \in Threads |-> IdleThread]
    /\ cache = <<>>
    /\ clast = NoCacheOp
    /\ recency = <<>>
    /\ born = [k \in AllKeys |-> NoBirth]
    /\ cth = [t \in Threads |-> IdleCacheThread]
    /\ sq = IdleQuery
    /\ history = <<>>
    /\ keyed = NoKeyed
    /\ qth = [t \in Threads |-> IdleQueryThread]
    /\ dispatched = [v \in Variants |-> <<>>]

(* Every screenshot is on disk and readable. *)
GoodFiles == [p \in Paths |-> Good]

Init == InitState /\ enabled = CACHE_ENABLED /\ files = GoodFiles

(* The cache as configured: CACHE_ENABLED comes from the environment. *)
InitAnyCache == InitState /\ enabled \in BOOLEAN /\ files = GoodFiles

(* The clock advances to a later instant of the grid S. *)
TickWithin(S) ==
    /\ \E t \in S :
         /\ t > now
         /\ now' = t
         /\ grants' = [m \in ModelType |-> Younger(grants[m], t, day_window)]
         /\ log' = IF t < TicksPerSecond THEN log ELSE [m \in ModelType |-> <<>>]
    /\ last' = Record("tick", "none", FALSE, 0)
    /\ UNCHANGED <<minute_requests, day_requests, current_model, wft, concvars>>

Tick == TickWithin(Times)

(* ModelLimiter.try_acquire() on tier m. *)
LimiterTryAcquire(m) ==
    LET r == Acquire(m, now)
    IN  /\ minute_requests' = [minute_requests EXCEPT ![m] = r.minute]
        /\ day_requests' = [day_requests EXCEPT ![m] = r.day]
        /\ grants' = IF r.granted
                     THEN [grants EXCEPT ![m] = Append(@, now)]
                     ELSE grants
        /\ log' = LogOne(log, [model |-> m, granted |-> r.granted])
        /\ last' = Record("try_acquire", m, r.granted, 0)
        /\ UNCHANGED <<now, current_model, wft, concvars>>

(* ModelLimiter.get_wait_time() on tier m. *)
LimiterGetWaitTime(m) ==
    /\ last' = Record("get_wait_time", m, FALSE, WaitTime(m, now))
    /\ UNCHANGED <<now, minute_requests, day_requests, current_model, grants,
                   log, wft, concvars>>

(* RateLimiter.try_acquire(). *)
RTryAcquire ==
    LET r == RAcquire(current_model, now)
    IN  /\ minute_requests' = r.minute
        /\ day_requests' = r.day
        /\ current_model' = r.current
        /\ grants' = IF r.granted
                     THEN [grants EXCEPT ![r.model] = Append(@, now)]
                     ELSE grants
        /\ log' = LogAll(log, r.calls)
        /\ last' = Record("r_try_acquire", r.model, r.granted, 0)
        /\ UNCHANGED <<now, wft, concvars>>

(* RateLimiter.switch_model(). *)
SwitchModel ==
    /\ current_model' = Toggled(current_model)
    /\ last' = Record("switch_model", current_model', FALSE, 0)
    /\ UNCHANGED <<now, minute_requests, day_requests, grants, log, wft, concvars>>

(* RateLimiter.get_wait_time(). *)
RGetWaitTimeCall ==
    /\ last' = [Record("r_get_wait_time", "none", FALSE, 0)
                    EXCEPT !.waits = RGetWaitTime(now)]
    /\ UNCHANGED <<now, minute_requests, day_requests, current_model, grants,
                   log, wft, concvars>>

Next ==
    \/ Tick
    \/ \E m \in ModelType : LimiterTryAcquire(m)
    \/ \E m \in ModelType : LimiterGetWaitTime(m)
    \/ RTryAcquire
    \/ SwitchModel
    \/ RGetWaitTimeCall

Spec == Init /\ [][Next]_vars

-----------------------------------------------------------------------------
(* RateLimiter.wait_for_token(timeout), one step per statement of its loop; *)
(* the clock and other callers' try_acquire run between the steps.         *)

(* start_time = time.time() *)
WftCall(timeout) ==
    /\ wft.pc = "idle"
    /\ wft' = [Idle EXCEPT !.pc = Entry, !.timeout = timeout,
                           !.start_time = now]
    /\ last' = Record("wft_call", "none", FALSE, 0)
    /\ UNCHANGED <<now, minute_requests, day_requests, current_model, grants, log,
                   concvars>>

(* if self.try_acquire(): return True *)
WftPoll ==
    /\ wft.pc = "poll"
    /\ LET r == RAcquire(current_model, now)
       IN  /\ minute_requests' = r.minute
           /\ day_requests' = r.day
           /\ current_model' = r.current
           /\ grants' = IF r.granted
                        THEN [grants EXCEPT ![r.model] = Append(@, now)]
                        ELSE grants
           /\ log' = LogAll(log, r.calls)
           /\ last' = Record("wft_poll", r.model, r.granted, 0)
           /\ wft' = [wft EXCEPT !.pc = AfterPoll(r.granted),
                                 !.result = (AfterPoll(r.granted) = "returned"),
                                 !.polls = @ + 1,
                                 !.admitted = @ + (IF r.granted THEN 1 ELSE 0)]
    /\ UNCHANGED <<now, concvars>>

(* if timeout is not None: if time.time() - start_time >= timeout:         *)
(* return False; otherwise time.sleep(0.1)                                 *)
WftCheck ==
    /\ wft.pc = "check"
    /\ wft' = IF TimedOut(wft.timeout, wft.start_time, now)
              THEN [wft EXCEPT !.pc = "returned", !.result = FALSE]
              ELSE [wft EXCEPT !.pc = "sleep", !.wake = now + PollInterval]
    /\ last' = Record("wft_check", "none", FALSE, 0)
    /\ UNCHANGED <<now, minute_requests, day_requests, current_model, grants, log,
                   concvars>>

(* time.sleep(0.1) returns once at least 0.1 s have passed. *)
WftWake ==
    /\ wft.pc = "sleep"
    /\ now >= wft.wake
    /\ wft' = [wft EXCEPT !.pc = "poll"]
    /\ last' = Record("wft_wake", "none", FALSE, 0)
    /\ UNCHANGED <<now, minute_requests, day_requests, current_model, grants, log,
                   concvars>>

(* The caller takes the result; the next call may start. *)
WftReturn ==
    /\ wft.pc = "returned"
    /\ wft' = Idle
    /\ last' = Record("wft_return", "none", wft.result, 0)
    /\ UNCHANGED <<now, minute_requests, day_requests, current_model, grants, log,
                   concvars>>

NextWait ==
    \/ Tick
    \/ RTryAcquire
    \/ \E timeout \in Timeouts : WftCall(timeout)
    \/ WftPoll
    \/ WftCheck
    \/ WftWake
    \/ WftReturn

SpecWait == Init /\ [][NextWait]_vars

(* The same process on a clock that keeps advancing.  The grid ends, so a   *)
(* call, and another caller's acquisition, starts only while the instants  *)
(* it depends on are still on the grid: the timeout of a bounded call, and *)
(* one day window for whatever an unbounded call may have to outwait.  The *)
(* statements between two sleeps take no time on this grid: the clock      *)
(* moves while the waiter sleeps or is not in a call.                      *)
MaxTime == day_window + minute_window

TickAsleep ==
    /\ wft.pc \in {"idle", "sleep"}
    /\ Tick

WftCallWithin(timeout) ==
    /\ IF timeout = NoTimeout
       THEN now + day_window <= MaxTime
       ELSE now + timeout <= MaxTime
    /\ WftCall(timeout)

RTryAcquireWithin ==
    /\ now + day_window <= MaxTime
    /\ RTryAcquire

NextWaitLive ==
    \/ TickAsleep
    \/ RTryAcquireWithin
    \/ \E timeout \in Timeouts : WftCallWithin(timeout)
    \/ WftPoll
    \/ WftCheck
    \/ WftWake
    \/ WftReturn

(* Time advances, and the waiting thread is scheduled. *)
SpecWaitLive ==
    /\ Init
    /\ [][NextWaitLive]_vars
    /\ WF_vars(TickAsleep)
    /\ WF_vars(WftPoll)
    /\ WF_vars(WftCheck)
    /\ WF_vars(WftWake)

-----------------------------------------------------------------------------
(* Several threads.  A call is split where another thread may run: at the   *)
(* lock, between the statements inside it, and between the statements of   *)
(* RateLimiter.try_acquire, which takes no lock of its own.                *)

seqvars == <<log, last, wft, othervars>>

TickConc == TickWithin(TimesConc)

(* History: the tiers that have had spare capacity ever since the thread's *)
(* RateLimiter.try_acquire began.                                          *)
Track(f) ==
    [u \in Threads |->
        [f[u] EXCEPT !.spare = @ \cap {m \in ModelType : Spare(m)'}]]

(* A thread calls ModelLimiter.try_acquire() on tier m. *)
CallLimiterTryAcquire(t, m) ==
    /\ th[t].pc = "idle"
    /\ UNCHANGED <<now, minute_requests, day_requests, current_model, grants,
                   lock, seqvars>>
    /\ th' = Track([th EXCEPT ![t] = [IdleThread EXCEPT !.op = "try_acquire",
                                                        !.pc = "lock", !.m = m]])

(* A thread calls ModelLimiter.get_wait_time() on tier m. *)
CallLimiterGetWaitTime(t, m) ==
    /\ th[t].pc = "idle"
    /\ UNCHANGED <<now, minute_requests, day_requests, current_model, grants,
                   lock, seqvars>>
    /\ th' = Track([th EXCEPT ![t] = [IdleThread EXCEPT !.op = "get_wait_time",
                                                        !.pc = "lock", !.m = m]])

(* A thread calls RateLimiter.try_acquire(). *)
CallRTryAcquire(t) ==
    /\ th[t].pc = "idle"
    /\ UNCHANGED <<now, minute_requests, day_requests, current_model, grants,
                   lock, seqvars>>
    /\ th' = Track([th EXCEPT ![t] = [IdleThread EXCEPT !.op = "r_try_acquire",
                                                        !.pc = "r_first",
                                                        !.spare = ModelType]])

(* self.limiters[self._current_model].try_acquire(): the selector is read. *)
RFirst(t) ==
    /\ th[t].pc = "r_first"
    /\ UNCHANGED <<now, minute_requests, day_requests, current_model, grants,
                   lock, seqvars>>
    /\ th' = Track([th EXCEPT ![t].first = current_model,
                              ![t].m = current_model,
                              ![t].pc = "lock"])

(* with self._lock: now = time.time() *)
Lock(t) ==
    /\ th[t].pc = "lock"
    /\ CanLock(lock[th[t].m])
    /\ lock' = [lock EXCEPT ![th[t].m] = t]
    /\ UNCHANGED <<now, minute_requests, day_requests, current_model, grants,
                   seqvars>>
    /\ th' = Track([th EXCEPT ![t].tnow = now,
                              ![t].pc = IF th[t].op = "get_wait_time"
                                        THEN "read" ELSE "clean_minute"])

(* The first loop of _clean_old_requests. *)
CleanMinuteStep(t) ==
    /\ th[t].pc = "clean_minute"
    /\ minute_requests' =
          [minute_requests EXCEPT ![th[t].m] = PopOld(@, th[t].tnow, minute_window)]
    /\ UNCHANGED <<now, day_requests, current_model, grants, lock, seqvars>>
    /\ th' = Track([th EXCEPT ![t].pc = "clean_day"])

(* The second loop of _clean_old_requests. *)
CleanDayStep(t) ==
    /\ th[t].pc = "clean_day"
    /\ day_requests' =
          [day_requests EXCEPT ![th[t].m] = PopOld(@, th[t].tnow, day_window)]
    /\ UNCHANGED <<now, minute_requests, current_model, grants, lock, seqvars>>
    /\ th' = Track([th EXCEPT ![t].pc = "check"])

(* if len(self.minute_requests) < self.rpm and len(self.day_requests) < self.rpd *)
Check(t) ==
    /\ th[t].pc = "check"
    /\ UNCHANGED <<now, minute_requests, day_requests, current_model, grants,
                   lock, seqvars>>
    /\ LET g == BelowLimits(minute_requests[th[t].m], day_requests[th[t].m],
                            th[t].m)
       IN  th' = Track([th EXCEPT ![t].granted = g,
                                 ![t].pc = IF g THEN "append_minute"
                                                ELSE "unlock"])

(* self.minute_requests.append(now) *)
AppendMinute(t) ==
    /\ th[t].pc = "append_minute"
    /\ minute_requests' = [minute_requests EXCEPT ![th[t].m] = Append(@, th[t].tnow)]
    /\ grants' = [grants EXCEPT ![th[t].m] = Append(@, th[t].tnow)]
    /\ UNCHANGED <<now, day_requests, current_model, lock, seqvars>>
    /\ th' = Track([th EXCEPT ![t].pc = "append_day"])

(* self.day_requests.append(now) *)
AppendDay(t) ==
    /\ th[t].pc = "append_day"
    /\ day_requests' = [day_requests EXCEPT ![th[t].m] = Append(@, th[t].tnow)]
    /\ UNCHANGED <<now, minute_requests, current_model, grants, lock, seqvars>>
    /\ th' = Track([th EXCEPT ![t].pc = "unlock"])

(* get_wait_time, inside the lock: the windows are read. *)
Read(t) ==
    /\ th[t].pc = "read"
    /\ UNCHANGED <<now, minute_requests, day_requests, current_model, grants,
                   lock, seqvars>>
    /\ th' = Track([th EXCEPT ![t].wait = WaitTime(th[t].m, th[t].tnow),
                              ![t].pc = "unlock"])

(* Where a thread goes when its ModelLimiter call returns. *)
AfterLimiter(r) ==
    IF r.op # "r_try_acquire"
    THEN [r EXCEPT !.pc = "done", !.ret = r.granted,
                   !.model = IF r.granted THEN r.m ELSE "none"]
    ELSE IF r.second = "none"
         THEN IF r.granted
              THEN [r EXCEPT !.pc = "done", !.ret = TRUE, !.model = r.m]
              ELSE [r EXCEPT !.pc = "r_other"]
         ELSE IF r.granted
              THEN [r EXCEPT !.pc = "r_set"]
              ELSE [r EXCEPT !.pc = "done", !.ret = FALSE]

(* The lock is released and the ModelLimiter call returns. *)
Unlock(t) ==
    /\ th[t].pc = "unlock"
    /\ lock' = [lock EXCEPT ![th[t].m] = 0]
    /\ UNCHANGED <<now, minute_requests, day_requests, current_model, grants,
                   seqvars>>
    /\ th' = Track([th EXCEPT ![t] = AfterLimiter(th[t])])

(* other_model = ...: the selector is read again; the other tier is asked. *)
ROther(t) ==
    /\ th[t].pc = "r_other"
    /\ UNCHANGED <<now, minute_requests, day_requests, current_model, grants,
                   lock, seqvars>>
    /\ th' = Track([th EXCEPT ![t].second = OtherModel(current_model),
                              ![t].m = OtherModel(current_model),
                              ![t].granted = FALSE,
                              ![t].pc = "lock"])

(* self._current_model = other_model; return True *)
RSet(t) ==
    /\ th[t].pc = "r_set"
    /\ current_model' = SwitchedTo(current_model, th[t].m)
    /\ UNCHANGED <<now, minute_requests, day_requests, grants, lock, seqvars>>
    /\ th' = Track([th EXCEPT ![t].pc = "done", ![t].ret = TRUE,
                              ![t].model = th[t].m])

(* The caller takes the result. *)
Return(t) ==
    /\ th[t].pc = "done"
    /\ UNCHANGED <<now, minute_requests, day_requests, current_model, grants,
                   lock, seqvars>>
    /\ th' = Track([th EXCEPT ![t] = IdleThread])

(* Threads calling one tier's ModelLimiter directly. *)
NextConc ==
    \/ TickConc
    \/ \E t \in Threads, m \in ModelType : CallLimiterTryAcquire(t, m)
    \/ \E t \in Threads, m \in ModelType : CallLimiterGetWaitTime(t, m)
    \/ \E t \in Threads : Lock(t)
    \/ \E t \in Threads : CleanMinuteStep(t)
    \/ \E t \in Threads : CleanDayStep(t)
    \/ \E t \in Threads : Check(t)
    \/ \E t \in Threads : AppendMinute(t)
    \/ \E t \in Threads : AppendDay(t)
    \/ \E t \in Threads : Read(t)
    \/ \E t \in Threads : Unlock(t)
    \/ \E t \in Threads : Return(t)

(* Threads calling RateLimiter.try_acquire(). *)
NextSel ==
    \/ TickConc
    \/ \E t \in Threads : CallRTryAcquire(t)
    \/ \E t \in Threads : RFirst(t)
    \/ \E t \in Threads : Lock(t)
    \/ \E t \in Threads : CleanMinuteStep(t)
    \/ \E t \in Threads : CleanDayStep(t)
    \/ \E t \in Threads : Check(t)
    \/ \E t \in Threads : AppendMinute(t)
    \/ \E t \in Threads : AppendDay(t)
    \/ \E t \in Threads : Unlock(t)
    \/ \E t \in Threads : ROther(t)
    \/ \E t \in Threads : RSet(t)
    \/ \E t \in Threads : Return(t)

SpecSel == Init /\ [][NextSel]_vars

SpecConc == Init /\ [][NextConc]_vars

-----------------------------------------------------------------------------
(* CacheManager, every operation one atomic step (one caller). *)

TickCache == TickWithin(TimesCache)

(* The history of the sets after a get(key) that hit or missed. *)
BornAfterGet(key, hit) ==
    IF born[key].live /\ now - born[key].at > CACHE_TIMEOUT
    THEN [born EXCEPT ![key] = NoBirth]
    ELSE IF hit THEN [born EXCEPT ![key].hit = TRUE]
    ELSE born

(* The history of the sets after a set(key, value) that popped evicted. *)
BornAfterSet(key, value, evicted) ==
    IF enabled
    THEN [k \in DOMAIN born |->
            IF k = key
            THEN [at |-> now, value |-> value, hit |-> FALSE, live |-> TRUE]
            ELSE IF k \in Range(evicted) THEN NoBirth
            ELSE born[k]]
    ELSE born

(* CacheManager.get(key) *)
Get(key) ==
    LET r == CacheGet(cache, enabled, key, now)
    IN  /\ cache' = r.cache
        /\ clast' = CacheRecord("get", key, r.hit, r.value, <<>>)
        /\ recency' = Present(IF r.hit THEN Used(recency, key) ELSE recency,
                              r.cache)
        /\ born' = BornAfterGet(key, r.hit)
        /\ UNCHANGED <<now, limitervars, enabled, cth, queryvars>>

(* CacheManager.set(key, value) *)
Set(key, value) ==
    LET r == CacheSet(cache, enabled, key, value, now)
    IN  /\ cache' = r.cache
        /\ clast' = CacheRecord("set", key, FALSE, value, r.evicted)
        /\ recency' = Present(Used(recency, key), r.cache)
        /\ born' = BornAfterSet(key, value, r.evicted)
        /\ UNCHANGED <<now, limitervars, enabled, cth, queryvars>>

(* CacheManager.remove(key) *)
Remove(key) ==
    /\ cache' = CacheRemove(cache, key)
    /\ clast' = CacheRecord("remove", key, FALSE, <<>>, <<>>)
    /\ recency' = Drop(recency, key)
    /\ born' = [born EXCEPT ![key] = NoBirth]
    /\ UNCHANGED <<now, limitervars, enabled, cth, queryvars>>

(* CacheManager.clear() *)
Clear ==
    /\ cache' = CacheClear(cache)
    /\ clast' = CacheRecord("clear", <<>>, FALSE, <<>>, <<>>)
    /\ recency' = <<>>
    /\ born' = [k \in DOMAIN born |-> NoBirth]
    /\ UNCHANGED <<now, limitervars, enabled, cth, queryvars>>

NextCache ==
    \/ TickCache
    \/ \E key \in Keys : Get(key)
    \/ \E key \in Keys, value \in Values : Set(key, value)
    \/ \E key \in Keys : Remove(key)
    \/ Clear

SpecCache == InitAnyCache /\ [][NextCache]_vars

-----------------------------------------------------------------------------
(* CacheManager under several threads.  It takes no lock: a call is split  *)
(* at every statement, and another thread may run between two of them.  A  *)
(* KeyError leaves the call at "raised".                                   *)

TimesCacheConc == {0, CACHE_TIMEOUT + 1}

TickCacheConc == TickWithin(TimesCacheConc)

cacheframe == <<now, limitervars, enabled, clast, recency, born, queryvars>>

(* A thread calls get(key): if not self.enabled: return None *)
CallGet(t, key) ==
    /\ cth[t].pc = "idle"
    /\ cth' = [cth EXCEPT ![t] = [IdleCacheThread EXCEPT
                  !.op = "get", !.key = key,
                  !.pc = IF enabled THEN "g_in" ELSE "done"]]
    /\ UNCHANGED <<cache, cacheframe>>

(* if key in self._cache *)
GetIn(t) ==
    /\ cth[t].pc = "g_in"
    /\ cth' = [cth EXCEPT ![t].pc = IF Has(cache, cth[t].key)
                                    THEN "g_read" ELSE "done"]
    /\ UNCHANGED <<cache, cacheframe>>

(* value, timestamp = self._cache[key] *)
GetRead(t) ==
    /\ cth[t].pc = "g_read"
    /\ cth' = IF Has(cache, cth[t].key)
              THEN [cth EXCEPT ![t].pc = "g_test",
                               ![t].entry = <<EntryOf(cache, cth[t].key)>>]
              ELSE [cth EXCEPT ![t].pc = "raised"]
    /\ UNCHANGED <<cache, cacheframe>>

(* if time.time() - timestamp <= self.timeout *)
GetTest(t) ==
    /\ cth[t].pc = "g_test"
    /\ cth' = [cth EXCEPT ![t].pc =
                  IF NotExpired(now, cth[t].entry[1].timestamp)
                  THEN "g_move" ELSE "g_del"]
    /\ UNCHANGED <<cache, cacheframe>>

(* self._cache.move_to_end(key); return value *)
GetMove(t) ==
    /\ cth[t].pc = "g_move"
    /\ IF Has(cache, cth[t].key)
       THEN /\ cache' = MoveToEnd(cache, cth[t].key)
            /\ cth' = [cth EXCEPT ![t].pc = "done",
                                  ![t].ret = <<cth[t].entry[1].value>>]
       ELSE /\ cache' = cache
            /\ cth' = [cth EXCEPT ![t].pc = "raised"]
    /\ UNCHANGED cacheframe

(* del self._cache[key]; return None *)
GetDel(t) ==
    /\ cth[t].pc = "g_del"
    /\ IF Has(cache, cth[t].key)
       THEN /\ cache' = Without(cache, cth[t].key)
            /\ cth' = [cth EXCEPT ![t].pc = "done"]
       ELSE /\ cache' = cache
            /\ cth' = [cth EXCEPT ![t].pc = "raised"]
    /\ UNCHANGED cacheframe

(* A thread calls set(key, value): if not self.enabled: return *)
CallSet(t, key, value) ==
    /\ cth[t].pc = "idle"
    /\ cth' = [cth EXCEPT ![t] = [IdleCacheThread EXCEPT
                  !.op = "set", !.key = key, !.value = value,
                  !.pc = IF enabled THEN "s_full" ELSE "done"]]
    /\ UNCHANGED <<cache, cacheframe>>

(* while len(self._cache) >= self.max_items *)
SetFull(t) ==
    /\ cth[t].pc = "s_full"
    /\ cth' = [cth EXCEPT ![t].pc = IF Full(cache) THEN "s_pop" ELSE "s_assign"]
    /\ UNCHANGED <<cache, cacheframe>>

(* self._cache.popitem(last=False) *)
SetPop(t) ==
    /\ cth[t].pc = "s_pop"
    /\ IF cache # <<>>
       THEN /\ cache' = Tail(cache)
            /\ cth' = [cth EXCEPT ![t].pc = "s_full"]
       ELSE /\ cache' = cache
            /\ cth' = [cth EXCEPT ![t].pc = "raised"]
    /\ UNCHANGED cacheframe

(* self._cache[key] = (value, time.time()) *)
SetAssign(t) ==
    /\ cth[t].pc = "s_assign"
    /\ cache' = Assign(cache, cth[t].key, cth[t].value, now)
    /\ cth' = [cth EXCEPT ![t].pc = "s_move"]
    /\ UNCHANGED cacheframe

(* self._cache.move_to_end(key) *)
SetMove(t) ==
    /\ cth[t].pc = "s_move"
    /\ IF Has(cache, cth[t].key)
       THEN /\ cache' = MoveToEnd(cache, cth[t].key)
            /\ cth' = [cth EXCEPT ![t].pc = "done"]
       ELSE /\ cache' = cache
            /\ cth' = [cth EXCEPT ![t].pc = "raised"]
    /\ UNCHANGED cacheframe

(* The call returns, or its KeyError reaches the caller. *)
CacheReturn(t) ==
    /\ cth[t].pc \in {"done", "raised"}
    /\ cth' = [cth EXCEPT ![t] = IdleCacheThread]
    /\ UNCHANGED <<cache, cacheframe>>

NextCacheConc ==
    \/ TickCacheConc
    \/ \E t \in Threads :
          \/ \E key \in Keys : CallGet(t, key)
          \/ \E key \in Keys, value \in Values : CallSet(t, key, value)
          \/ GetIn(t) \/ GetRead(t) \/ GetTest(t) \/ GetMove(t) \/ GetDel(t)
          \/ SetFull(t) \/ SetPop(t) \/ SetAssign(t) \/ SetMove(t)
          \/ CacheReturn(t)

SpecCacheConc == InitAnyCache /\ [][NextCacheConc]_vars

-----------------------------------------------------------------------------
(* GeminiClient.send_query, one step per blocking call or group of         *)
(* statements between two of them; the admission is the wait_for_token     *)
(* process above.  The clock and another caller's cache sets run between   *)
(* the steps.                                                              *)

TickQuery == TickWithin(TimesQuery)

limiterbutwft ==
    <<minute_requests, day_requests, current_model, grants, log, last, lock, th>>

(* self.cache.get(key) and self.cache.set(key, value) inside a query, and  *)
(* the set of another caller's query.                                      *)
QueryGet(key) ==
    LET r == CacheGet(cache, enabled, key, now)
    IN  /\ cache' = r.cache
        /\ born' = BornAfterGet(key, r.hit)
        /\ UNCHANGED <<clast, recency>>

QuerySet(key, value) ==
    LET r == CacheSet(cache, enabled, key, value, now)
    IN  /\ cache' = r.cache
        /\ born' = BornAfterSet(key, value, r.evicted)
        /\ UNCHANGED <<clast, recency>>

OtherKeys == {<<"q3">>}

OtherSet(key, value) ==
    /\ QuerySet(key, value)
    /\ UNCHANGED <<now, limitervars, enabled, cth, queryvars>>

(* except Exception: retries += 1; if retries < max_retries: sleep, continue *)
Failed(q, t, what) ==
    LET r == q.retries + 1
    IN  IF r < max_retries
        THEN [q EXCEPT !.retries = r, !.trace = Append(@, what),
                       !.sleeps = Append(@, Backoff(r)),
                       !.wake = t + Backoff(r) * TicksPerSecond,
                       !.pc = "backoff"]
        ELSE [q EXCEPT !.retries = r, !.trace = Append(@, what), !.pc = "loop"]

NoTextRetried(q, t, kind) == Failed(q, t, kind)

(* else: return the 'blocked' text or the 'could not process' text *)
NoText(q, t, kind) ==
    [q EXCEPT !.pc = "returned", !.trace = Append(@, kind),
              !.ret = Answer(kind, <<>>, NoWaits)]

(* A record of the conversation log. *)
Conversation(question, response) == [question |-> question, response |-> response]

(* send_query(question, image_paths) is called. *)
SqCall(question, image_paths) ==
    /\ sq.pc = "idle"
    /\ Len(history) < MaxHistory
    /\ sq' = [IdleQuery EXCEPT !.question = question, !.images = image_paths,
                               !.pc = IF IsWebSearch(question) THEN "web"
                                      ELSE "lookup"]
    /\ UNCHANGED <<now, limitervars, cachevars, history, files, keyed, qth, dispatched>>

(* The web search: every path through it returns a text. *)
SqWeb ==
    /\ sq.pc = "web"
    /\ sq' = [sq EXCEPT !.pc = "returned", !.ret = Answer("web", <<"w">>, NoWaits)]
    /\ UNCHANGED <<now, limitervars, cachevars, history, files, keyed, qth, dispatched>>

(* cache_key = ...; cached_response = self.cache.get(cache_key);           *)
(* if cached_response: add_conversation, return cached_response            *)
SqLookup(log_fails) ==
    /\ sq.pc = "lookup"
    /\ LET key == GenerateCacheKey(sq.question, sq.images, files)
           r == CacheGet(cache, enabled, key, now)
       IN  /\ QueryGet(key)
           /\ IF Truthy(r)
              THEN IF log_fails
                   THEN /\ sq' = [sq EXCEPT !.pc = "raised", !.key = key,
                                                !.trace = Append(@, "logappend")]
                        /\ history' = history
                   ELSE /\ sq' = [sq EXCEPT !.pc = "returned", !.key = key,
                                     !.ret = Answer("cached", r.value, NoWaits),
                                     !.appends = @ + 1]
                        /\ history' = Append(history,
                                             Conversation(sq.question, r.value))
              ELSE /\ ~log_fails
                   /\ sq' = [sq EXCEPT !.pc = "loop", !.key = key]
                   /\ history' = history
    /\ UNCHANGED <<now, limitervars, enabled, cth, files, keyed, qth, dispatched>>

(* while retries < max_retries: wait_for_token(timeout=10) is called;      *)
(* after the loop: return error_msg                                        *)
SqLoop ==
    /\ sq.pc = "loop"
    /\ wft.pc = "idle"
    /\ IF InLoop(sq.retries)
       THEN /\ wft' = [Idle EXCEPT !.pc = Entry, !.timeout = AdmissionTimeout,
                                   !.start_time = now]
            /\ sq' = [sq EXCEPT !.pc = "waiting", !.waits = @ + 1]
       ELSE /\ wft' = wft
            /\ sq' = [sq EXCEPT !.pc = "returned",
                                !.ret = Answer("error", <<>>, NoWaits)]
    /\ UNCHANGED <<now, limiterbutwft, cachevars, history, files, keyed, qth, dispatched>>

(* wait_for_token returned: on False, get_wait_time() and return the       *)
(* 'temporarily unavailable' text                                          *)
SqAdmitted ==
    /\ sq.pc = "waiting"
    /\ wft.pc = "returned"
    /\ wft' = Idle
    /\ sq' = IF AfterAdmission(wft.result) = "returned"
             THEN [sq EXCEPT !.pc = "returned",
                             !.trace = Append(@, "denied"),
                             !.ret = Answer("unavailable", <<>>, RGetWaitTime(now))]
             ELSE [sq EXCEPT !.pc = AfterAdmission(wft.result),
                             !.admissions = @ + (IF wft.result THEN 1 ELSE 0)]
    /\ UNCHANGED <<now, limiterbutwft, cachevars, history, files, keyed, qth, dispatched>>

(* historico = self.history.get_recent_conversations(5); ...               *)
(* generate_content(...) is called                                         *)
SqDispatch(log_fails) ==
    /\ sq.pc = "context"
    /\ sq' = IF log_fails
             THEN Failed(sq, now, "logread")
             ELSE [sq EXCEPT !.pc = "backend", !.dispatches = @ + 1,
                             !.variant = Variant(sq.images),
                             !.sent = IF sq.images # <<>>
                                      THEN ProcessImages(sq.images, files)
                                      ELSE <<>>]
    /\ UNCHANGED <<now, limitervars, cachevars, history, files, keyed, qth, dispatched>>

(* generate_content raised or returned: the rest of the try block. *)
SqRespond(kind, text, log_fails) ==
    /\ sq.pc = "backend"
    /\ IF HasText(kind)
       THEN LET response_text == Sanitize(text)
                q == [sq EXCEPT !.sets = @ + 1, !.response = text]
            IN  /\ QuerySet(sq.key, response_text)
                /\ IF log_fails
                   THEN /\ sq' = Failed(q, now, "logwrite")
                        /\ history' = history
                   ELSE /\ sq' = [q EXCEPT !.pc = "returned",
                                     !.trace = Append(@, kind),
                                     !.appends = @ + 1,
                                     !.ret = Answer(kind, response_text, NoWaits)]
                        /\ history' = Append(history,
                                   Conversation(sq.question, response_text))
       ELSE /\ ~log_fails
            /\ text = <<>>
            /\ sq' = IF kind = "raise"
                     THEN Failed(sq, now, "raise")
                     ELSE NoText(sq, now, kind)
            /\ UNCHANGED <<cache, clast, recency, born, history>>
    /\ UNCHANGED <<now, limitervars, enabled, cth, files, keyed, qth, dispatched>>

(* time.sleep(backoff_time) returns; continue *)
SqWake ==
    /\ sq.pc = "backoff"
    /\ now >= sq.wake
    /\ sq' = [sq EXCEPT !.pc = "loop"]
    /\ UNCHANGED <<now, limitervars, cachevars, history, files, keyed, qth, dispatched>>

(* The caller takes the answer, or the exception; the next call may start. *)
SqReturn ==
    /\ sq.pc \in {"returned", "raised"}
    /\ sq' = IdleQuery
    /\ UNCHANGED <<now, limitervars, cachevars, history, files, keyed, qth, dispatched>>

NextQuery ==
    \/ TickQuery
    \/ \E question \in Questions, image_paths \in ImageLists :
          SqCall(question, image_paths)
    \/ SqWeb
    \/ \E log_fails \in BOOLEAN : SqLookup(log_fails)
    \/ SqLoop
    \/ WftPoll
    \/ WftCheck
    \/ WftWake
    \/ SqAdmitted
    \/ \E log_fails \in BOOLEAN : SqDispatch(log_fails)
    \/ \E kind \in {"raise", "empty", "blocked"} : SqRespond(kind, <<>>, FALSE)
    \/ \E text \in Responses, log_fails \in BOOLEAN :
          SqRespond("text", text, log_fails)
    \/ SqWake
    \/ SqReturn
    \/ \E key \in OtherKeys : OtherSet(key, <<"b">>)

SpecQuery == Init /\ [][NextQuery]_vars

(* send_query with the cache as configured, enabled or not. *)
SpecQueryAnyCache == InitAnyCache /\ [][NextQuery]_vars

(* send_query when the screenshot may be missing or unreadable as an image *)
InitQueryFiles ==
    /\ InitState
    /\ enabled = CACHE_ENABLED
    /\ \E file \in {Good, File(<<"1">>, <<"1">>, FALSE), Missing} :
          files = [GoodFiles EXCEPT !["p1"] = file]

NextQueryFiles ==
    \/ TickQuery
    \/ \E question \in Questions, image_paths \in ImageLists :
          SqCall(question, image_paths)
    \/ SqWeb
    \/ \E log_fails \in BOOLEAN : SqLookup(log_fails)
    \/ SqLoop
    \/ WftPoll
    \/ WftCheck
    \/ WftWake
    \/ SqAdmitted
    \/ \E log_fails \in BOOLEAN : SqDispatch(log_fails)
    \/ \E kind \in {"raise", "empty", "blocked"} : SqRespond(kind, <<>>, FALSE)
    \/ \E text \in Responses, log_fails \in BOOLEAN :
          SqRespond("text", text, log_fails)
    \/ SqWake
    \/ SqReturn

SpecQueryFiles == InitQueryFiles /\ [][NextQueryFiles]_vars

(* The retry loop of send_query under several threads, one per question    *)
(* (main.py starts a thread for each): text-only queries that missed the   *)
(* cache.  A step is what a thread does between two blocking calls; a poll *)
(* of wait_for_token is RateLimiter.try_acquire followed by the test of    *)
(* the timeout.                                                            *)

TimesQueries == {0, PollInterval, AdmissionTimeout, minute_window}

queriesframe == <<log, last, wft, lock, th, cachevars, sq, history, files, keyed>>

TickQueries ==
    /\ \E t \in TimesQueries : t > now /\ now' = t
    /\ UNCHANGED <<minute_requests, day_requests, current_model, grants,
                   queriesframe, qth, dispatched>>

(* The loop is entered or re-entered: while retries < max_retries, the     *)
(* attempt starts at wait_for_token; otherwise the generic failure.        *)
NextAttempt(q, t) ==
    IF InLoop(q.retries)
    THEN IF NeedsAdmission(q.retries)
         THEN [q EXCEPT !.pc = "poll", !.start_time = t, !.wake = t]
         ELSE [q EXCEPT !.pc = "context"]
    ELSE [q EXCEPT !.pc = "returned", !.ret = "error"]

(* send_query is called with these images and misses the cache. *)
QCallWith(t, image_paths) ==
    /\ qth[t].pc = "idle"
    /\ qth' = [qth EXCEPT ![t] =
           NextAttempt([IdleQueryThread EXCEPT !.images = image_paths], now)]
    /\ UNCHANGED <<now, minute_requests, day_requests, current_model, grants,
                   queriesframe, dispatched>>

(* The same, for a question without images. *)
QCall(t) ==
    /\ qth[t].pc = "idle"
    /\ qth' = [qth EXCEPT ![t] = NextAttempt(IdleQueryThread, now)]
    /\ UNCHANGED <<now, minute_requests, day_requests, current_model, grants,
                   queriesframe, dispatched>>

(* One round of wait_for_token(timeout=10): try_acquire, then the timeout, *)
(* then time.sleep(0.1).                                                   *)
QPoll(t) ==
    /\ qth[t].pc = "poll"
    /\ now >= qth[t].wake
    /\ LET r == RAcquire(current_model, now)
           over == TimedOut(AdmissionTimeout, qth[t].start_time, now)
       IN  /\ minute_requests' = r.minute
           /\ day_requests' = r.day
           /\ current_model' = r.current
           /\ grants' = IF r.granted
                        THEN [grants EXCEPT ![r.model] = Append(@, now)]
                        ELSE grants
           /\ qth' = [qth EXCEPT ![t] =
                  IF r.granted
                  THEN [@ EXCEPT !.pc = AfterAdmission(TRUE),
                                 !.admissions = @ + 1, !.tier = r.model]
                  ELSE IF over
                       THEN IF AfterAdmission(FALSE) = "returned"
                            THEN [@ EXCEPT !.pc = "returned", !.denied = TRUE,
                                           !.ret = "unavailable"]
                            ELSE [@ EXCEPT !.pc = AfterAdmission(FALSE)]
                       ELSE [@ EXCEPT !.wake = now + PollInterval]]
    /\ UNCHANGED <<now, queriesframe, dispatched>>

(* generate_content is called, on model_vision or on model_pro. *)
QDispatch(t) ==
    /\ qth[t].pc = "context"
    /\ qth' = [qth EXCEPT ![t].pc = "backend", ![t].dispatches = @ + 1]
    /\ dispatched' = [dispatched EXCEPT ![Variant(qth[t].images)] =
                                            Append(@, now)]
    /\ UNCHANGED <<now, minute_requests, day_requests, current_model, grants,
                   queriesframe>>

(* generate_content returns a text, returns none, or raises. *)
QRespond(t, kind) ==
    /\ qth[t].pc = "backend"
    /\ qth' = [qth EXCEPT ![t] =
           IF kind = "raise"
           THEN LET r == @.retries + 1
                IN  IF r < max_retries
                    THEN [@ EXCEPT !.retries = r, !.failed = TRUE,
                                   !.tier = "none", !.pc = "backoff",
                                   !.wake = now + Backoff(r) * TicksPerSecond]
                    ELSE NextAttempt([@ EXCEPT !.retries = r, !.failed = TRUE,
                                               !.tier = "none"], now)
           ELSE [@ EXCEPT !.pc = "returned", !.ret = kind,
                          !.saved = IF HasText(kind)
                                    THEN SavedModel(current_model)
                                    ELSE "none"]]
    /\ UNCHANGED <<now, minute_requests, day_requests, current_model, grants,
                   queriesframe, dispatched>>

(* time.sleep(backoff_time) returns; continue *)
QWake(t) ==
    /\ qth[t].pc = "backoff"
    /\ now >= qth[t].wake
    /\ qth' = [qth EXCEPT ![t] = NextAttempt(@, now)]
    /\ UNCHANGED <<now, minute_requests, day_requests, current_model, grants,
                   queriesframe, dispatched>>

(* The caller takes the answer; the thread ends and another may start. *)
QReturn(t) ==
    /\ qth[t].pc = "returned"
    /\ qth' = [qth EXCEPT ![t] = IdleQueryThread]
    /\ UNCHANGED <<now, minute_requests, day_requests, current_model, grants,
                   queriesframe, dispatched>>

NextQueries ==
    \/ TickQueries
    \/ \E t \in Threads :
          \/ QCall(t)
          \/ QPoll(t)
          \/ QDispatch(t)
          \/ \E kind \in {"text", "empty", "raise"} : QRespond(t, kind)
          \/ QWake(t)
          \/ QReturn(t)

SpecQueries == Init /\ [][NextQueries]_vars

(* The same loop, one query at a time, with or without a screenshot. *)
NextDispatch ==
    \/ TickQueries
    \/ \E image_paths \in ImageLists : QCallWith(1, image_paths)
    \/ QPoll(1)
    \/ QDispatch(1)
    \/ \E kind \in {"text", "empty", "raise"} : QRespond(1, kind)
    \/ QWake(1)
    \/ QReturn(1)

SpecDispatch == Init /\ [][NextDispatch]_vars

-----------------------------------------------------------------------------
(* GeminiClient._generate_cache_key over files that change between calls   *)

(* The image lists whose key is computed: order and repetition of paths.   *)
KeyImageLists == {<<>>, <<"p1">>, <<"p1", "p2">>, <<"p2", "p1">>}

(* The file a path names is written, replaced or deleted. *)
Touch(path, file) ==
    /\ files[path] # file
    /\ files' = [files EXCEPT ![path] = file]
    /\ UNCHANGED <<now, limitervars, cachevars, sq, history, keyed, qth, dispatched>>

(* _generate_cache_key(question, image_paths) is called and returns. *)
KeyCall(question, image_paths) ==
    /\ keyed' = [n |-> IF keyed.n < 2 THEN keyed.n + 1 ELSE 2,
                 prev |-> keyed.last,
                 last |-> [question |-> question, images |-> image_paths,
                           seen |-> [i \in 1..Len(image_paths) |->
                                        files[image_paths[i]]],
                           key |-> GenerateCacheKey(question, image_paths,
                                                    files)]]
    /\ UNCHANGED <<now, limitervars, cachevars, sq, history, files, qth, dispatched>>

NextKey ==
    \/ \E path \in Paths, file \in Metas \cup {Missing} : Touch(path, file)
    \/ \E question \in Questions, image_paths \in KeyImageLists :
          KeyCall(question, image_paths)

SpecKey == Init /\ [][NextKey]_vars

-----------------------------------------------------------------------------
(* C1: at every instant the granted calls of a tier younger than 60 s are  *)
(* at most rpm, and those younger than 86400 s at most rpd.                *)
C1_RateBound ==
    \A m \in ModelType :
        /\ Count(grants[m], now, minute_window) <= rpm(m)
        /\ Count(grants[m], now, day_window) <= rpd(m)

(* A tier whose day quota alone is exhausted has just denied a call, while *)
(* the other tier has its minute quota exhausted.                          *)
C1_Witness ==
    \E m \in ModelType :
        /\ Count(grants[m], now, day_window) = rpd(m)
        /\ Count(grants[m], now, minute_window) < rpm(m)
        /\ last = Record("try_acquire", m, FALSE, 0)
        /\ \A o \in ModelType \ {m} :
              Count(grants[o], now, minute_window) = rpm(o)

(* C2: try_acquire purges every timestamp whose age has reached the window *)
(* length, grants exactly when both purged counts are below the limits,    *)
(* on grant appends the same instant to both windows, and on denial leaves *)
(* exactly the purged windows.                                             *)
C2_TryAcquireContract ==
    [][\A m \in ModelType :
         IsLimiterAcquire(m) =>
            /\ (last'.granted <=> Spare(m))
            /\ (last'.granted => RecordedNow(m))
            /\ (~last'.granted => PurgedOnly(m))
            /\ \A o \in ModelType \ {m} :
                  /\ minute_requests'[o] = minute_requests[o]
                  /\ day_requests'[o] = day_requests[o]]_vars

(* A denied call that purged an aged-out entry of the minute window while  *)
(* the day window stayed full.                                             *)
C2_Witness ==
    \E m \in ModelType :
        /\ last = Record("try_acquire", m, FALSE, 0)
        /\ Len(minute_requests[m]) < rpm(m)
        /\ Len(day_requests[m]) = rpd(m)
        /\ now >= minute_window

(* C3: called by a single thread, RateLimiter.try_acquire grants iff some  *)
(* tier has spare capacity in both windows at call time, and on denial no  *)
(* tier records a timestamp.                                               *)
C3_GrantIffSpare ==
    [][IsRAcquire =>
         /\ (last'.granted <=> (\E m \in ModelType : Spare(m)))
         /\ (~last'.granted => \A m \in ModelType : PurgedOnly(m))]_vars

(* A call granted by the fallback tier, and (other disjunct) a denial.     *)
C3_Witness ==
    /\ last.op = "r_try_acquire"
    /\ ~last.granted
    /\ \A m \in ModelType : ~Spare(m)
    /\ current_model = FLASH

(* C4: after a granted RateLimiter.try_acquire the current tier is the     *)
(* tier that recorded the timestamp and exactly one tier recorded one;     *)
(* after a denied one the current tier is unchanged.                       *)
C4_CurrentIsGranter ==
    [][IsRAcquire =>
         IF last'.granted
         THEN /\ RecordedNow(current_model')
              /\ \A o \in ModelType \ {current_model'} : NothingRecorded(o)
              /\ last'.model = current_model'
         ELSE current_model' = current_model]_vars

(* The fallback tier granted and became current. *)
C4_Witness ==
    /\ last = Record("r_try_acquire", FLASH, TRUE, 0)
    /\ current_model = FLASH
    /\ ~Spare(PRO)
    /\ Len(minute_requests[FLASH]) = 1

(* C5 as stated: the current tier starts as PRO and changes only in a step *)
(* where the active tier denied and the other tier granted.                *)
C5_OnlyFallbackSwitches ==
    /\ current_model = PRO
    /\ [][(current_model' # current_model) =>
             (/\ IsRAcquire
              /\ ~Spare(current_model)
              /\ Spare(current_model')
              /\ RecordedNow(current_model'))]_vars

C5_AmendedStep ==
    /\ (current_model' # current_model) =>
          (\/ last'.op = "switch_model"
           \/ /\ IsRAcquire
              /\ ~Spare(current_model)
              /\ Spare(current_model')
              /\ RecordedNow(current_model'))
    /\ (IsRAcquire /\ Spare(current_model)) =>
          (current_model' = current_model)

(* C5 amended: the current tier starts as PRO and changes only in a        *)
(* try_acquire step where the active tier denied and the other granted, or *)
(* in a call of switch_model; a try_acquire that finds the active tier     *)
(* with spare capacity leaves it current.                                  *)
C5_SwitchesOnFallbackOrSwitchModel ==
    /\ current_model = PRO
    /\ [][C5_AmendedStep]_vars

(* FLASH stays current after a grant although PRO has regained capacity.   *)
C5_Witness ==
    /\ last = Record("r_try_acquire", FLASH, TRUE, 0)
    /\ current_model = FLASH
    /\ Spare(PRO)
    /\ Len(minute_requests[FLASH]) >= 2
    /\ Len(day_requests[PRO]) >= 1

(* C8: get_wait_time returns 0 when neither window is saturated, otherwise *)
(* the largest time left, over the saturated windows, until the window's   *)
(* oldest timestamp ages out; never a negative value.                      *)
Remaining(q, w, limit) ==
    IF Len(Fresh(q, w)) >= limit THEN w - (now - Fresh(q, w)[1]) ELSE 0

C8_WaitTimeValue ==
    last.op = "get_wait_time" =>
        LET m == last.model
            a == Remaining(minute_requests[m], minute_window, rpm(m))
            b == Remaining(day_requests[m], day_window, rpd(m))
        IN  /\ last.wait >= 0
            /\ last.wait = Max(a, b)
            /\ (~(Len(Fresh(minute_requests[m], minute_window)) >= rpm(m)
                  \/ Len(Fresh(day_requests[m], day_window)) >= rpd(m)))
               => (last.wait = 0)

(* Both windows saturated: the day window decides the wait.                *)
C8_Witness ==
    /\ last.op = "get_wait_time"
    /\ Len(Fresh(minute_requests[last.model], minute_window)) >= rpm(last.model)
    /\ Len(Fresh(day_requests[last.model], day_window)) >= rpd(last.model)
    /\ last.wait = day_window - minute_window
    /\ now = minute_window

(* C9: on a fresh tier with rpm = n < rpd, of n+1 try_acquire calls within *)
(* one second the first n are granted and the last is denied, and a        *)
(* get_wait_time right after is above 0 and at most 60 s.                  *)
C9_BurstScenario ==
    /\ \A m \in ModelType :
          \A i \in 1..Len(log[m]) : log[m][i] = (i <= rpm(m))
    /\ (last.op = "get_wait_time" /\ Len(log[last.model]) = rpm(last.model) + 1)
          => (last.wait > 0 /\ last.wait <= minute_window)

(* rpm+1 calls were made on FLASH within the second, then the wait read.   *)
C9_Witness ==
    /\ last.op = "get_wait_time"
    /\ last.model = FLASH
    /\ Len(log[FLASH]) = rpm(FLASH) + 1
    /\ ~log[FLASH][rpm(FLASH) + 1]
    /\ now = 1
    /\ last.wait = minute_window - 1

(* C10: wait_for_token returns True exactly when one of its polls was      *)
(* granted, having consumed exactly one admission; it returns False only   *)
(* after a denied poll with the elapsed time at or past the timeout,       *)
(* having consumed none; it polls at least once, even with timeout 0.      *)
C10_WaitForToken ==
    /\ wft.pc \in {"poll", "check", "sleep"} => wft.admitted = 0
    /\ wft.pc = "returned" =>
          /\ wft.polls >= 1
          /\ wft.result <=> (wft.admitted = 1)
          /\ wft.admitted <= 1
          /\ ~wft.result =>
                /\ wft.timeout # NoTimeout
                /\ now - wft.start_time >= wft.timeout
                /\ wft.admitted = 0

(* The 10 s wait of send_query timed out after three denied polls.         *)
C10_Witness ==
    /\ wft.pc = "returned"
    /\ ~wft.result
    /\ wft.timeout = 10 * TicksPerSecond
    /\ wft.polls >= 2

(* C11: a wait_for_token with a finite timeout always comes to return, as   *)
(* time advances, whatever the other callers take; with timeout None it    *)
(* never returns False, and it comes to return True unless another caller  *)
(* acquires in the meantime.                                               *)
C11_Waiting == wft.pc \in {"poll", "check", "sleep"}

C11_OtherAcquired == last.op = "r_try_acquire" /\ last.granted

C11_WaitTerminates ==
    /\ [](wft.pc = "returned" /\ wft.timeout = NoTimeout => wft.result)
    /\ (C11_Waiting /\ wft.timeout # NoTimeout) ~> (wft.pc = "returned")
    /\ (C11_Waiting /\ wft.timeout = NoTimeout)
          ~> ((wft.pc = "returned" /\ wft.result) \/ C11_OtherAcquired)

(* An unbounded wait that was denied, slept, and was granted a day later.  *)
C11_Witness ==
    /\ wft.pc = "returned"
    /\ wft.result
    /\ wft.timeout = NoTimeout
    /\ wft.polls >= 2
    /\ now - wft.start_time >= day_window

-----------------------------------------------------------------------------
(* Thread t is inside the locked section of tier m. *)
InSection(t, m) ==
    /\ th[t].m = m
    /\ th[t].pc \in {"clean_minute", "clean_day", "check", "append_minute",
                     "append_day", "read", "unlock"}

(* Thread t has purged or recorded in one window of tier m and not yet in  *)
(* the other.                                                              *)
Partial(t, m) == th[t].m = m /\ th[t].pc \in {"clean_day", "append_day"}

(* C6: under any interleaving of threads on one tier, purge-check-record   *)
(* is atomic: no two threads are inside the section of one tier, so none   *)
(* sees a window another has half purged or half recorded, two calls never *)
(* both take the last slot, and the rpm and rpd bounds on the granted      *)
(* calls hold as with one thread.                                          *)
C6_AtomicSection ==
    /\ \A m \in ModelType :
          /\ Count(grants[m], now, minute_window) <= rpm(m)
          /\ Count(grants[m], now, day_window) <= rpd(m)
          /\ Len(minute_requests[m]) <= rpm(m)
          /\ Len(day_requests[m]) <= rpd(m)
    /\ \A t, u \in Threads, m \in ModelType :
          t # u => /\ ~(InSection(t, m) /\ InSection(u, m))
                   /\ ~(InSection(t, m) /\ Partial(u, m))

(* One thread has taken the last minute slot of a tier and is between its  *)
(* two appends, while the other waits for the lock of the same tier.       *)
C6_Witness ==
    \E t, u \in Threads, m \in ModelType :
        /\ t # u
        /\ Partial(t, m)
        /\ th[t].pc = "append_day"
        /\ Len(minute_requests[m]) = rpm(m)
        /\ th[u].pc = "lock"
        /\ th[u].op = "try_acquire"
        /\ th[u].m = m
        /\ lock[m] = t

(* Thread t returns from RateLimiter.try_acquire in this step. *)
Returns(t) ==
    /\ th'[t].op = "r_try_acquire"
    /\ th[t].pc # "done"
    /\ th'[t].pc = "done"

(* C7: with several threads in RateLimiter.try_acquire, the selector is    *)
(* read and written atomically with the call's attempts: the two attempts  *)
(* of one call target different tiers, a call never returns denied while   *)
(* the other tier had spare capacity throughout the call, and on a granted *)
(* return the selector names the tier that granted.                        *)
C7_SelectorAtomic ==
    [][\A t \in Threads :
         /\ (th'[t].op = "r_try_acquire" /\ th'[t].second # "none")
               => th'[t].second # th'[t].first
         /\ (Returns(t) /\ ~th'[t].ret)
               => th'[t].spare \ {th'[t].first} = {}
         /\ (Returns(t) /\ th'[t].ret)
               => current_model' = th'[t].model]_vars

-----------------------------------------------------------------------------
(* This step is the cache operation op. *)
IsCacheOp(op) == clast'.flip # clast.flip /\ clast'.op = op

(* C12: with the cache enabled, a get(key) that follows a set(key, value)  *)
(* at once returns value; a get(key) issued more than timeout after the    *)
(* key's last set returns nothing and leaves the key absent.               *)
C12_GetStep ==
    LET k == clast'.key
    IN  (IsCacheOp("get") /\ enabled) =>
          /\ (clast.op = "set" /\ clast.key = k /\ clast.at = now)
                => (clast'.hit /\ clast'.value = clast.value)
          /\ (born[k].live /\ now - born[k].at > CACHE_TIMEOUT)
                => (~clast'.hit /\ ~Has(cache', k))

C12_SetThenGet == [][C12_GetStep]_vars

(* A get found its key stored, older than the timeout, and deleted it.     *)
C12_Witness ==
    /\ enabled
    /\ clast.op = "get"
    /\ clast.found
    /\ ~clast.hit
    /\ ~Has(cache, clast.key)
    /\ now > CACHE_TIMEOUT

(* C13: the cache never holds more than max_items entries, and the keys a  *)
(* set() evicts are the least recently used ones at that moment, a use     *)
(* being an insertion by set() or a hit by get().                          *)
C13_SetStep ==
    IsCacheOp("set") =>
        /\ Len(clast'.evicted) <= Len(recency)
        /\ \A i \in 1..Len(clast'.evicted) : clast'.evicted[i] = recency[i]

C13_BoundedLRU ==
    /\ [](Len(cache) <= MAX_CACHE_ITEMS)
    /\ [][C13_SetStep]_vars

(* A full cache: a set evicted one key and spared another, inserted at the *)
(* start, that a get had hit since.                                        *)
C13_Witness ==
    /\ clast.op = "set"
    /\ Len(clast.evicted) = 1
    /\ Len(cache) = MAX_CACHE_ITEMS
    /\ \E i \in 1..Len(cache) :
          /\ cache[i].key # clast.key
          /\ born[cache[i].key].hit
          /\ cache[i].timestamp = 0
          /\ now = 1

(* C14: a get() hit returns the value of the key's last set(), which is    *)
(* not older than the timeout and has not been evicted, removed or expired *)
(* since, whatever hits the entry received in between.                     *)
C14_GetStep ==
    LET k == clast'.key
    IN  (IsCacheOp("get") /\ clast'.hit) =>
          /\ born[k].live
          /\ now - born[k].at <= CACHE_TIMEOUT
          /\ clast'.value = born[k].value

C14_AbsoluteTTL == [][C14_GetStep]_vars

(* An entry that was hit while young is refused once older than the        *)
(* timeout.                                                                *)
C14_Witness ==
    /\ enabled
    /\ clast.op = "get"
    /\ clast.found
    /\ clast.after_hit
    /\ ~clast.hit
    /\ now > CACHE_TIMEOUT


(* C15: under concurrent get and set calls the cache never holds more than *)
(* max_items entries and no call fails with an error because another       *)
(* thread removed the entry it was reading or evicting.                    *)
C15_AsIfExclusive ==
    /\ Len(cache) <= MAX_CACHE_ITEMS
    /\ \A t \in Threads : cth[t].pc # "raised"

-----------------------------------------------------------------------------
(* This step is the cache lookup of send_query, and its log append, if     *)
(* any, did not fail.                                                      *)
IsLookup == sq.pc = "lookup" /\ sq'.pc \notin {"lookup", "raised"}

(* The answer the key's last successful query stored is still there: it    *)
(* was not evicted since, and it is not older than the cache timeout.      *)
StillCached(key) ==
    born[key].live /\ now - born[key].at <= CACHE_TIMEOUT

(* C16: a query whose fingerprint was answered and cached before, within   *)
(* the cache timeout and not evicted since, takes no admission, makes no   *)
(* backend dispatch, appends one record to the conversation log, and       *)
(* returns the text the first query returned.                              *)
C16_HitStep ==
    (IsLookup /\ enabled /\ StillCached(sq'.key)) =>
        /\ sq'.pc = "returned"
        /\ sq'.ret.kind = "cached"
        /\ sq'.ret.text = born[sq'.key].value
        /\ Len(history') = Len(history) + 1
        /\ sq'.waits = 0
        /\ sq'.dispatches = 0

C16_SecondCallHits == [][C16_HitStep]_vars

(* The same, for a first answer that is not the empty text. *)
C16_NonEmptyHitStep ==
    (IsLookup /\ enabled /\ StillCached(sq'.key)
        /\ born[sq'.key].value # <<>>) =>
        /\ sq'.pc = "returned"
        /\ sq'.ret.kind = "cached"
        /\ sq'.ret.text = born[sq'.key].value
        /\ Len(history') = Len(history) + 1
        /\ sq'.waits = 0
        /\ sq'.dispatches = 0

C16_NonEmptySecondCallHits == [][C16_NonEmptyHitStep]_vars

(* C17: a backend dispatch follows an admission granted to that same       *)
(* attempt (every attempt up to it was admitted, a denial ending the       *)
(* query), and a query answered from the cache calls no wait_for_token and *)
(* leaves every tier's windows as they were.                               *)
C17_DispatchStep ==
    /\ (sq'.pc # "idle" /\ sq'.dispatches # sq.dispatches) =>
          /\ sq.pc = "context"
          /\ sq'.dispatches = sq.dispatches + 1
          /\ sq.admissions = Len(sq.trace) + 1
    /\ (sq.pc # "idle" /\ sq'.ret.kind = "cached") =>
          UNCHANGED <<minute_requests, day_requests, wft>>

C17_AdmissionBeforeDispatch ==
    /\ [](/\ sq.dispatches <= sq.admissions
          /\ sq.admissions <= sq.waits
          /\ sq.pc = "backend" => sq.admissions = Len(sq.trace) + 1
          /\ sq.ret.kind = "cached" => (sq.waits = 0 /\ sq.admissions = 0))
    /\ [][C17_DispatchStep]_vars

(* The second attempt of a query is at the backend, on its own admission.  *)
C17_Witness ==
    /\ sq.pc = "backend"
    /\ sq.dispatches = 2
    /\ sq.admissions = 2
    /\ sq.trace = <<"raise">>

(* C18: when wait_for_token returns False, send_query returns the          *)
(* 'temporarily unavailable' text with each tier's own wait estimate; the  *)
(* step dispatches nothing, writes neither the cache nor the log, and      *)
(* counts no failed attempt.                                               *)
C18_DeniedStep ==
    (sq.pc = "waiting" /\ sq'.pc # "waiting" /\ ~wft.result) =>
        /\ sq'.pc = "returned"
        /\ sq'.ret.kind = "unavailable"
        /\ \A m \in ModelType :
              sq'.ret.waits[m] =
                  Max(Remaining(minute_requests[m], minute_window, rpm(m)),
                      Remaining(day_requests[m], day_window, rpd(m)))
        /\ sq'.dispatches = sq.dispatches
        /\ sq'.retries = sq.retries
        /\ sq'.sleeps = sq.sleeps
        /\ sq'.sets = sq.sets
        /\ sq'.appends = sq.appends
        /\ UNCHANGED <<cache, history>>

C18_DeniedIsUnavailable == [][C18_DeniedStep]_vars

(* A first attempt denied after the 10 s, both tiers 50 s from a free slot. *)
C18_Witness ==
    /\ sq.pc = "returned"
    /\ sq.ret.kind = "unavailable"
    /\ sq.trace = <<"denied">>
    /\ \A m \in ModelType : sq.ret.waits[m] = minute_window - AdmissionTimeout

(* The attempts of the call that ended in an exception. *)
Failures(trace) ==
    Len(SelectSeq(trace, LAMBDA x : x \in {"raise", "logread", "logwrite"}))

(* C19: with max_retries = 3, the backend raising on attempts 1 and 2 and  *)
(* answering on attempt 3, send_query returns the answer without the       *)
(* stripped characters after exactly two sleeps, of 2 s and of 4 s; in     *)
(* general the sleep after the k-th failed attempt is 2^k seconds.         *)
C19_RetryBackoff ==
    /\ \A k \in 1..Len(sq.sleeps) : sq.sleeps[k] = 2 ^ k
    /\ sq.pc = "backoff" => Len(sq.sleeps) = Failures(sq.trace)
    /\ (sq.pc = "returned" /\ sq.trace = <<"raise", "raise", "text">>) =>
          /\ sq.ret.kind = "text"
          /\ sq.response = <<"*", "a", "quote">> => sq.ret.text = <<"a">>
          /\ sq.response = <<"acute", "backtick", "dquote">> => sq.ret.text = <<>>
          /\ sq.sleeps = <<2, 4>>
          /\ sq.dispatches = 3

(* Two failures, two sleeps, and the third attempt answered "a" in markup. *)
C19_Witness ==
    /\ sq.pc = "returned"
    /\ sq.trace = <<"raise", "raise", "text">>
    /\ sq.ret.text = <<"a">>
    /\ sq.sleeps = <<2, 4>>

(* C20 as stated: whenever every backend attempt of a query raised, the    *)
(* query has dispatched exactly max_retries times, slept between the       *)
(* attempts only, returned the generic failure text and written neither    *)
(* the cache nor the log.                                                  *)
C20_EveryAttemptRaised ==
    /\ sq.dispatches >= 1
    /\ \A i \in 1..Len(sq.trace) : sq.trace[i] \in {"raise", "denied"}

C20_ExhaustedOutcome ==
    /\ sq.dispatches = max_retries
    /\ Len(sq.sleeps) = max_retries - 1
    /\ sq.ret.kind = "error"
    /\ sq.sets = 0
    /\ sq.appends = 0

C20_AllRaiseExhausts ==
    (sq.pc = "returned" /\ C20_EveryAttemptRaised) => C20_ExhaustedOutcome

(* C20, amended: a query never dispatches more than max_retries times; if  *)
(* every attempt was admitted and every backend attempt raised, it has     *)
(* dispatched exactly max_retries times, slept between the attempts only,  *)
(* returned the generic failure text and written neither the cache nor the *)
(* log.                                                                    *)
C20_AdmittedAllRaiseExhausts ==
    /\ sq.dispatches <= max_retries
    /\ (sq.pc = "returned" /\ sq.trace # <<>>
            /\ \A i \in 1..Len(sq.trace) : sq.trace[i] = "raise") =>
          (Len(sq.trace) = max_retries /\ C20_ExhaustedOutcome)

(* Three attempts, three exceptions of the backend, the generic failure.   *)
C20_Witness ==
    /\ sq.pc = "returned"
    /\ sq.trace = <<"raise", "raise", "raise">>
    /\ sq.ret.kind = "error"
    /\ sq.dispatches = max_retries

-----------------------------------------------------------------------------
(* This step ends the call with the backend's answer: generate_content     *)
(* returned a text and the cache set and the log append went through.      *)
IsSuccess == sq.pc = "backend" /\ sq'.pc = "returned" /\ sq'.ret.kind = "text"

(* The text without asterisk, acute accent, backtick, double quote, quote. *)
RECURSIVE Plain(_)
Plain(text) ==
    IF text = <<>> THEN <<>>
    ELSE IF Head(text) \in {"*", "acute", "backtick", "dquote", "quote"}
         THEN Plain(Tail(text))
         ELSE <<Head(text)>> \o Plain(Tail(text))

(* C21: on a successful backend response the text returned is the          *)
(* backend's text without the five characters, the cache holds that text   *)
(* under the fingerprint of the question and the images, and one record    *)
(* with that text is appended to the conversation log: the value cached,   *)
(* the value logged and the value returned are equal.                      *)
C21_SuccessStep ==
    IsSuccess =>
        /\ sq'.ret.text = Plain(sq'.response)
        /\ sq.key = GenerateCacheKey(sq.question, sq.images, files)
        /\ Has(cache', sq.key)
        /\ EntryOf(cache', sq.key).value = sq'.ret.text
        /\ EntryOf(cache', sq.key).timestamp = now
        /\ history' = Append(history, Conversation(sq.question, sq'.ret.text))
        /\ sq'.sets = sq.sets + 1
        /\ sq'.appends = sq.appends + 1

C21_SuccessStoresLogsReturns == [][C21_SuccessStep]_vars

(* The backend answered "a" in markup: "a" is cached, logged and returned. *)
C21_Witness ==
    /\ sq.pc = "returned"
    /\ sq.ret.kind = "text"
    /\ sq.response = <<"*", "a", "quote">>
    /\ sq.ret.text = <<"a">>
    /\ Has(cache, sq.key)
    /\ EntryOf(cache, sq.key).value = <<"a">>
    /\ history[Len(history)].response = <<"a">>

(* The attempts of the call in which the backend returned a text. *)
Answered(trace) ==
    Len(SelectSeq(trace, LAMBDA x : x \in {"text", "logwrite"}))

(* This step of the call comes after its cache lookup and is not the one   *)
(* in which the backend returns a text.                                    *)
IsMissStepWithoutAnswer ==
    /\ sq.pc \notin {"idle", "lookup"}
    /\ sq' # sq
    /\ Answered(sq'.trace) = Answered(sq.trace)

(* C22: once the lookup has missed, the call sets nothing in the cache and *)
(* appends nothing to the log until a backend dispatch has returned a      *)
(* text; the steps that end in admission denied, retries exhausted, an     *)
(* empty or a blocked response, and every step before, leave the cache and *)
(* the log as they were.                                                   *)
C22_NoWriteStep ==
    IsMissStepWithoutAnswer =>
        /\ UNCHANGED <<cache, history>>
        /\ sq'.pc # "idle" => (sq'.sets = sq.sets /\ sq'.appends = sq.appends)

C23_FailureStep ==
    /\ (sq.pc = "backend" /\ Answered(sq'.trace) = Answered(sq.trace) + 1) =>
          /\ sq'.pc = "returned"
          /\ sq'.ret.kind = "text"
          /\ sq'.ret.text = Plain(sq'.response)
          /\ sq'.retries = sq.retries
          /\ sq'.sleeps = sq.sleeps
    /\ (sq.pc = "context" /\ sq'.pc # "context") =>
          /\ sq'.pc = "backend"
          /\ sq'.retries = sq.retries

C23_LogFailureIgnored == [][C23_FailureStep]_vars

(* C24: no path of send_query ends by raising to the caller, whether the   *)
(* cache hits or misses, the admission is granted or denied, the backend   *)
(* answers or fails, or the conversation log fails.                        *)
C24_NeverRaises == sq.pc # "raised"

(* The two calls had the same question and paths, and each path named a    *)
(* file of the same modification time and size, or was unreadable, in both. *)
SameInputs(a, b) ==
    /\ a.question = b.question
    /\ a.images = b.images
    /\ \A i \in 1..Len(a.images) :
          /\ a.seen[i].mtime = b.seen[i].mtime
          /\ a.seen[i].size = b.seen[i].size

(* Same question and paths, and some image, readable in both calls, had    *)
(* another modification time or another size.                              *)
MetaChanged(a, b) ==
    /\ a.question = b.question
    /\ a.images = b.images
    /\ \E i \in 1..Len(a.images) :
          /\ a.seen[i] # Missing
          /\ b.seen[i] # Missing
          /\ \/ a.seen[i].mtime # b.seen[i].mtime
             \/ a.seen[i].size # b.seen[i].size

(* C25: two calls of _generate_cache_key with the same question and, image *)
(* by image in order, the same path, modification time and size give the   *)
(* same key; if the modification time or the size of an attached image     *)
(* differs between them, the keys differ.                                  *)
C25_KeyOfMetadata ==
    keyed.n = 2 =>
        /\ SameInputs(keyed.prev, keyed.last) => keyed.prev.key = keyed.last.key
        /\ MetaChanged(keyed.prev, keyed.last) => keyed.prev.key # keyed.last.key

(* The same question and two images; between the calls the second image    *)
(* went from time 1, size 11 to time 11, size 1, and the key changed.      *)
C25_Witness ==
    /\ keyed.n = 2
    /\ keyed.prev.images = <<"p1", "p2">>
    /\ keyed.last.images = <<"p1", "p2">>
    /\ keyed.prev.question = keyed.last.question
    /\ keyed.prev.seen[1] = keyed.last.seen[1]
    /\ keyed.prev.seen[2] = File(<<"1">>, <<"1", "1">>, TRUE)
    /\ keyed.last.seen[2] = File(<<"1", "1">>, <<"1">>, TRUE)
    /\ keyed.prev.key # keyed.last.key

(* The call has computed its cache key. *)
KeyComputed == sq.key # <<>>

(* Neither getmtime and getsize nor Image.open can read the file at path,  *)
(* or only Image.open cannot.                                              *)
NoMetadata(path) == files[path] = Missing
Unreadable(path) == NoMetadata(path) \/ ~files[path].image

(* C26 as stated: an attached image whose metadata or content cannot be    *)
(* read is left out of the fingerprint, the key being that of the same     *)
(* question with the readable images only, and out of the backend call.    *)
C26_UnreadableDropped ==
    /\ KeyComputed =>
          sq.key = GenerateCacheKey(sq.question,
                       SelectSeq(sq.images, LAMBDA path : ~Unreadable(path)),
                       files)
    /\ sq.pc = "backend" =>
          \A i \in 1..Len(sq.sent) : ~Unreadable(sq.sent[i])

(* C26, amended: an attached image whose metadata cannot be read stays in  *)
(* the fingerprint by its path alone, so the key differs from the key of   *)
(* the question without that image; an image with metadata but unreadable  *)
(* content is fingerprinted like any other.  The backend call gets the     *)
(* images that open, in order, and no others.  The call is not aborted: it *)
(* raises only when the log append of a cache hit fails.                   *)
C26_UnreadableKeepsPath ==
    /\ (KeyComputed /\ sq.images = <<"p1">>) =>
          /\ sq.key # sq.question
          /\ NoMetadata("p1") => sq.key = sq.question \o <<"||", "p1">>
          /\ ~NoMetadata("p1") =>
                sq.key = sq.question \o <<"||", "p1", ":">> \o files["p1"].mtime
                                     \o <<":">> \o files["p1"].size
    /\ sq.pc = "backend" =>
          /\ \A i \in 1..Len(sq.sent) : ~Unreadable(sq.sent[i])
          /\ \A i \in 1..Len(sq.images) :
                ~Unreadable(sq.images[i]) =>
                    \E j \in 1..Len(sq.sent) : sq.sent[j] = sq.images[i]
    /\ sq.pc = "raised" => sq.trace = <<"logappend">>

(* A query whose screenshot is gone was answered by the image model with   *)
(* no image, and the answer is cached under question and path.             *)
C26_Witness ==
    /\ sq.pc = "returned"
    /\ sq.ret.kind = "text"
    /\ sq.images = <<"p1">>
    /\ NoMetadata("p1")
    /\ sq.sent = <<>>
    /\ sq.variant = "vision"
    /\ sq.key = sq.question \o <<"||", "p1">>
    /\ Has(cache, sq.key)

(* C27: remove(key) deletes that key's entry if there is one, whatever its *)
(* age and its place in the LRU order, and leaves the other entries and    *)
(* their order as they were; clear() leaves the cache empty; a get of the  *)
(* key after either, with no set in between, returns nothing.              *)
C27_InvalidationStep ==
    /\ IsCacheOp("remove") =>
          /\ ~Has(cache', clast'.key)
          /\ cache' = SelectSeq(cache, LAMBDA e : e.key # clast'.key)
          /\ ~Has(cache, clast'.key) => cache' = cache
    /\ IsCacheOp("clear") => cache' = <<>>
    /\ (IsCacheOp("get") /\ ~born[clast'.key].live) => ~clast'.hit
    /\ (IsCacheOp("get") /\ clast.op = "clear") => ~clast'.hit
    /\ (IsCacheOp("get") /\ clast.op = "remove" /\ clast.key = clast'.key) =>
          ~clast'.hit

C27_ExplicitInvalidation == [][C27_InvalidationStep]_vars

(* A stored key has just been removed; the other entry, older than the     *)
(* timeout, is still in the cache.                                         *)
C27_Witness ==
    /\ clast.op = "remove"
    /\ clast.found
    /\ Len(cache) = 1
    /\ now - cache[1].timestamp > CACHE_TIMEOUT
    /\ cache[1].key # clast.key

(* This step is a call of RateLimiter.get_wait_time(). *)
IsRGetWaitTime == last'.op = "r_get_wait_time" /\ now' = now

(* C28: RateLimiter.get_wait_time() returns, for each tier, what that      *)
(* tier's own get_wait_time() returns, a value fixed by the tier's windows *)
(* and the instant and not by which tier is current; the call changes      *)
(* neither the current tier nor any window.                                *)
C28_WaitTimesStep ==
    IsRGetWaitTime =>
        /\ DOMAIN last'.waits = ModelType
        /\ \A m \in ModelType :
              /\ last'.waits[m] = WaitTime(m, now)
              /\ last'.waits[m] =
                    Max(Remaining(minute_requests[m], minute_window, rpm(m)),
                        Remaining(day_requests[m], day_window, rpd(m)))
        /\ UNCHANGED <<minute_requests, day_requests, current_model>>

C28_WaitTimesPerTier == [][C28_WaitTimesStep]_vars

(* The current tier is free and the other one saturated: the estimates are *)
(* 0 for the current tier and the time left for the other.                 *)
C28_Witness ==
    /\ last.op = "r_get_wait_time"
    /\ last.waits[current_model] = 0
    /\ last.waits[Toggled(current_model)] > 0

(* The granted admissions and the backend dispatches so far. *)
TotalAdmissions == Len(grants[PRO]) + Len(grants[FLASH])
TotalDispatches == Len(dispatched["pro"]) + Len(dispatched["vision"])

(* C29: every attempt of the retry loop takes its own admission before it  *)
(* dispatches: with queries running in several threads the dispatches so   *)
(* far never exceed the admissions granted so far, a query takes at most   *)
(* max_retries admissions, and a query denied admission, after a failed    *)
(* attempt or not, ends with the 'temporarily unavailable' text, the       *)
(* generic failure being returned only after max_retries admitted attempts. *)
C29_OwnAdmissionPerAttempt ==
    /\ TotalDispatches <= TotalAdmissions
    /\ \A t \in Threads :
          /\ qth[t].dispatches <= qth[t].admissions
          /\ qth[t].admissions <= max_retries
          /\ qth[t].pc = "backend" => qth[t].admissions = qth[t].retries + 1
          /\ qth[t].denied => (qth[t].pc = "returned" /\ qth[t].ret = "unavailable")
          /\ qth[t].ret = "error" =>
                (~qth[t].denied /\ qth[t].admissions = max_retries
                    /\ qth[t].dispatches = max_retries)

(* One query was denied its retry after a failed attempt and returned      *)
(* 'temporarily unavailable' while another query is at the backend.        *)
C29_Witness ==
    \E t, u \in Threads :
        /\ qth[t].ret = "unavailable"
        /\ qth[t].failed
        /\ qth[t].dispatches >= 1
        /\ qth[u].pc = "backend"
        /\ TotalDispatches = TotalAdmissions

(* The backend model each tier's quota is for: gemini-2.5-pro for PRO,     *)
(* gemini-2.5-flash, the image-capable one, for FLASH.                     *)
VariantOf(m) == IF m = PRO THEN "pro" ELSE "vision"

(* The dispatches to model v are at most limit in any 60 seconds. *)
WithinRate(v, limit) ==
    \A i, j \in 1..Len(dispatched[v]) :
        (i <= j /\ dispatched[v][j] - dispatched[v][i] < minute_window) =>
            j - i + 1 <= limit

(* C30: a dispatch goes to the backend model of the tier that granted its  *)
(* admission, so each model receives at most its own tier's rpm dispatches *)
(* in any 60 seconds, and the 'model' saved with an answer is the model    *)
(* that served it.                                                         *)
C30_DispatchMatchesTier ==
    /\ \A t \in Threads :
          /\ qth[t].pc = "backend" =>
                Variant(qth[t].images) = VariantOf(qth[t].tier)
          /\ qth[t].ret = "text" =>
                VariantOf(qth[t].saved) = Variant(qth[t].images)
    /\ \A m \in ModelType : WithinRate(VariantOf(m), rpm(m))

(* Tier m has spare capacity in both windows at instant t, the windows     *)
(* being those of the current state: no acquire between now and t.         *)
SpareAt(m, t) ==
    /\ Len(Younger(minute_requests[m], t, minute_window)) < rpm(m)
    /\ Len(Younger(day_requests[m], t, day_window)) < rpd(m)

(* The delays below w at which an earlier try_acquire is tried: all of the *)
(* first and of the last minute before w, and every full hour in between.  *)
Earlier(w) ==
    {d \in (0..(minute_window - 1)) \cup {w - k : k \in 1..minute_window}
              \cup {h * 3600 * TicksPerSecond : h \in 0..23} :
        0 <= d /\ d < w}

(* C31: get_wait_time returns 0 exactly when a try_acquire at the same     *)
(* instant is granted; when it returns w > 0, a try_acquire w later, with  *)
(* no acquire in between, is granted, and one issued earlier is denied.    *)
C31_EstimateState ==
    last.op = "get_wait_time" =>
        LET m == last.model
            w == last.wait
        IN  /\ (w = 0) <=> SpareAt(m, now)
            /\ (w = 0) <=> Acquire(m, now).granted
            /\ w > 0 =>
                  /\ SpareAt(m, now + w)
                  /\ Acquire(m, now + w).granted
                  /\ \A d \in Earlier(w) :
                        ~SpareAt(m, now + d) /\ ~Acquire(m, now + d).granted

C31_EstimateStep ==
    (last.op = "get_wait_time" /\ IsLimiterAcquire(last.model) /\ now' = now) =>
        (last'.granted <=> last.wait = 0)

C31_EstimateSoundAndTight == []C31_EstimateState /\ [][C31_EstimateStep]_vars

(* The minute window frees in 59.9 s, the day window decides: the estimate *)
(* is a day less a minute.                                                 *)
C31_Witness ==
    /\ last.op = "get_wait_time"
    /\ Len(Fresh(minute_requests[last.model], minute_window)) >= rpm(last.model)
    /\ last.wait > minute_window
    /\ now > minute_window

(* The timestamps of window q never decrease from head to tail. *)
Ordered(q) == \A i, j \in 1..Len(q) : i <= j => q[i] <= q[j]

(* C32: between the calls of a ModelLimiter, the stored minute window has  *)
(* at most rpm entries and the stored day window at most rpd, stale        *)
(* entries included; both are in non-decreasing order of timestamp; and    *)
(* every timestamp of the minute window is also in the day window.  The    *)
(* bounds and the order hold inside a call as well.                        *)
C32_WindowsWellFormed ==
    \A m \in ModelType :
        /\ Len(minute_requests[m]) <= rpm(m)
        /\ Len(day_requests[m]) <= rpd(m)
        /\ Ordered(minute_requests[m])
        /\ Ordered(day_requests[m])
        /\ (\A t \in Threads : ~Partial(t, m)) =>
              \A i \in 1..Len(minute_requests[m]) :
                  \E j \in 1..Len(day_requests[m]) :
                      day_requests[m][j] = minute_requests[m][i]

(* Both windows of PRO are full, a day after the last grant: the minute    *)
(* window holds stale entries only, not yet purged.                        *)
C32_Witness ==
    /\ Len(minute_requests[PRO]) = rpm(PRO)
    /\ Len(day_requests[PRO]) = rpd(PRO)
    /\ now - minute_requests[PRO][rpm(PRO)] >= day_window

(* This step is a set() of a key the enabled cache already holds. *)
IsSetOfPresent == IsCacheOp("set") /\ enabled /\ Has(cache, clast'.key)

(* After the step the key holds the new value, stamped now, at the most    *)
(* recently used end.                                                      *)
Replaced ==
    /\ Has(cache', clast'.key)
    /\ cache'[Len(cache')] =
          [key |-> clast'.key, value |-> clast'.value, timestamp |-> now]

(* Every other entry is still there, unchanged and in the same order. *)
OthersKept == Without(cache', clast'.key) = Without(cache, clast'.key)

(* C33: set(key, value) on a key that is already present replaces its      *)
(* value, resets its timestamp to now and makes it the most recently used, *)
(* without evicting any other entry.                                       *)
C33_ReplaceStep == IsSetOfPresent => (Replaced /\ OthersKept)

C33_ReplaceEvictsNothing == [][C33_ReplaceStep]_vars

(* What does hold: the replacement always; every other entry kept when the *)
(* cache is below max_items or the key is itself the least recently used.  *)
C33_ReplaceBelowCapacityStep ==
    IsSetOfPresent =>
        /\ Replaced
        /\ (~Full(cache) \/ Head(cache).key = clast'.key) => OthersKept
        /\ (Full(cache) /\ Head(cache).key # clast'.key) =>
              clast'.evicted = <<Head(cache).key>>

C33_ReplaceBelowCapacity == [][C33_ReplaceBelowCapacityStep]_vars

(* A set of a present key has just evicted the other entry of a full cache. *)
C33_EvictedOther ==
    /\ enabled
    /\ clast.op = "set"
    /\ clast.found
    /\ Len(clast.evicted) = 1
    /\ clast.evicted[1] # clast.key
    /\ Len(cache) = 1

(* The cache holds a value under key, not older than the timeout. *)
Stored(key) ==
    Has(cache, key) /\ now - EntryOf(cache, key).timestamp <= CACHE_TIMEOUT

(* C34: every value send_query stores in the cache is recognised as a hit  *)
(* by a later send_query of the same fingerprint within the timeout: the   *)
(* lookup that finds the value stored does not go on to the retry loop,    *)
(* and no first backend dispatch is made while the value is stored, also   *)
(* when the value is the empty text left by sanitizing.                    *)
C34_StoredStep ==
    /\ (sq.pc = "lookup" /\ sq'.pc # "lookup" /\ enabled /\ Stored(sq'.key))
          => sq'.pc \in {"returned", "raised"}
    /\ (sq.pc = "context" /\ sq'.pc = "backend" /\ sq.trace = <<>> /\ enabled)
          => ~Stored(sq.key)

C34_StoredIsHit == [][C34_StoredStep]_vars

(* The same for the values that are not the empty text; a stored empty     *)
(* text always sends the lookup on to the retry loop.                      *)
C34_NonEmptyStoredStep ==
    /\ (sq.pc = "lookup" /\ sq'.pc # "lookup" /\ enabled /\ Stored(sq'.key)) =>
          IF EntryOf(cache, sq'.key).value # <<>>
          THEN sq'.pc \in {"returned", "raised"}
          ELSE sq'.pc = "loop"
    /\ (sq.pc = "context" /\ sq'.pc = "backend" /\ sq.trace = <<>> /\ enabled
          /\ Stored(sq.key))
          => EntryOf(cache, sq.key).value = <<>>

C34_NonEmptyStoredIsHit == [][C34_NonEmptyStoredStep]_vars

(* The query is dispatched to the backend for the first time while the     *)
(* empty text an earlier query stored under its fingerprint is in the      *)
(* cache, within the timeout.                                              *)
C34_DispatchedAgain ==
    /\ sq.pc = "backend"
    /\ sq.trace = <<>>
    /\ Stored(sq.key)
    /\ EntryOf(cache, sq.key).value = <<>>

(* This step ends a backend call that returned no text: an empty or a      *)
(* safety-blocked response.                                                *)
IsNoText(kind) ==
    /\ sq.pc = "backend"
    /\ sq'.pc # "backend"
    /\ sq'.trace = Append(sq.trace, kind)

(* C35: when the backend returns without raising but with no text, empty   *)
(* or safety-blocked, send_query returns the corresponding fixed message   *)
(* at once: no retry, no sleep, no write of the cache or the conversation  *)
(* log, and the admission of the attempt stays in the tier's windows.      *)
C35_NoTextStep ==
    \A kind \in {"empty", "blocked"} :
        IsNoText(kind) =>
            /\ sq'.pc = "returned"
            /\ sq'.ret = Answer(kind, <<>>, NoWaits)
            /\ sq'.retries = sq.retries
            /\ sq'.sleeps = sq.sleeps
            /\ sq'.waits = sq.waits
            /\ sq'.dispatches = sq.dispatches
            /\ sq'.sets = sq.sets
            /\ sq'.appends = sq.appends
            /\ sq'.admissions = sq.admissions
            /\ sq.admissions = Len(sq.trace) + 1
            /\ UNCHANGED <<cache, history, minute_requests, day_requests,
                           grants, now>>

C35_NoTextReturnsAtOnce == [][C35_NoTextStep]_vars

(* After one attempt that raised and its backoff, the second attempt was   *)
(* blocked: the call has returned, both admissions still in the windows.   *)
C35_Witness ==
    /\ sq.pc = "returned"
    /\ sq.ret.kind = "blocked"
    /\ sq.trace = <<"raise", "blocked">>
    /\ sq.sleeps = <<2>>
    /\ sq.admissions = 2
    /\ Len(minute_requests[PRO]) + Len(minute_requests[FLASH]) = 2
    /\ history = <<>>

(* With the cache disabled, what get() and set() would do in this state,   *)
(* for every key: get returns nothing, and neither changes the entries.    *)
DisabledIsInert ==
    \A key \in Keys :
        /\ ~CacheGet(cache, enabled, key, now).hit
        /\ CacheGet(cache, enabled, key, now).cache = cache
        /\ \A value \in Values :
              CacheSet(cache, enabled, key, value, now).cache = cache

(* With the cache disabled: the entries are as at construction, no answer  *)
(* comes from the cache, and an answer of the backend was admitted first.  *)
C36_DisabledState ==
    ~enabled =>
        /\ cache = <<>>
        /\ DisabledIsInert
        /\ sq.ret.kind # "cached"
        /\ sq.ret.kind \in {"text", "empty", "blocked", "error", "unavailable"}
              => sq.waits >= 1
        /\ sq.ret.kind \in {"text", "empty", "blocked"} => sq.admissions >= 1
        /\ sq.pc = "backend" => sq.admissions >= 1

(* With the cache disabled: no step changes the entries, a get() of the    *)
(* cache returns nothing, and the lookup of send_query goes on to the      *)
(* retry loop, whose first statement asks for an admission.                *)
C36_DisabledStep ==
    ~enabled =>
        /\ cache' = cache
        /\ IsCacheOp("get") => ~clast'.hit
        /\ (sq.pc = "lookup" /\ sq'.pc # "lookup") =>
              (sq'.pc = "loop" /\ history' = history)
        /\ (sq.pc = "loop" /\ sq'.pc # "loop" /\ sq.retries = 0) =>
              (sq'.pc = "waiting" /\ sq'.waits = 1 /\ wft'.pc = Entry)

(* C36: when the cache is disabled, get() returns nothing for every key    *)
(* and set() stores nothing, so the entries never change through get and   *)
(* set, and every send_query that reaches the lookup is handled as a cache *)
(* miss that requires an admission.                                        *)
C36_DisabledCacheIsMiss == []C36_DisabledState /\ [][C36_DisabledStep]_vars

(* Cache disabled: the same question was answered by the backend twice,    *)
(* the second call has stored and logged its answer, nothing is cached.    *)
C36_Witness ==
    /\ ~enabled
    /\ sq.pc = "returned"
    /\ sq.ret.kind = "text"
    /\ sq.sets = 1
    /\ sq.admissions = 1
    /\ Len(history) = 2
    /\ history[1].question = history[2].question
    /\ now <= CACHE_TIMEOUT
    /\ cache = <<>>

=============================================================================
